---- MODULE Spec2Model ----
(***************************************************************************)
(* A model of the inversion subsystem of PyAutoArray:                      *)
(*   - InversionMatrices (autoarray/inversion/inversion/matrices.py): the  *)
(*     lazily evaluated accessors of one Inversion instance;               *)
(*   - the neighbor topology kernels of pixelization_util.py.              *)
(* Arithmetic is exact (integers and reduced fractions), so a matrix is    *)
(* positive definite, singular, ... exactly, not up to rounding.           *)
(***************************************************************************)
EXTENDS Integers, Sequences, FiniteSets, TLC

VARIABLES
    mapping,        \* the mapping row f of the single image pixel (input)
    F0,             \* the curvature matrix F held by linear_eqn_list[0] at construction
    H,              \* regularization_matrix
    D,              \* the data vector held by linear_eqn_list[0]
    preloads,       \* linear_eqn_list[0].preloads
    leqCurv,        \* the array linear_eqn_list[0].curvature_matrix holds now
    cache,          \* the instance __dict__ entries written by cached_property
    last,           \* the last access: accessor, cache hit, computations run, outcome
    everRan,        \* every computation run so far on this instance
    firstReconstruction, \* the value the first returning access of reconstruction gave
    call,           \* the arguments of a call of a kernel
    result          \* what that call returned

invVars == <<mapping, F0, H, D, preloads, leqCurv, cache, last, everRan,
             firstReconstruction>>
callVars == <<call, result>>
vars == <<invVars, callVars>>

----------------------------------------------------------------------------
(* Bounds and input sets *)

\* The number of source pixels N: matrices are Dim x Dim.
Dim == 2

Idx == 1..Dim

\* Rectangular pixelizations have 1..MaxSide rows and columns.
MaxSide == 4

\* Voronoi pixelizations have 1..MaxPixels pixels and at most MaxRidges ridges.
MaxPixels == 3
MaxRidges == 3

\* Masked images have ImagePixels pixels in a row.
ImagePixels == 3

\* Entries of the mapping row, of the diagonal and of the off-diagonal of H.
MapValues == {0, 1}
RegDiagValues == {0, 1}
RegOffValues == {-1, 0}

----------------------------------------------------------------------------
(* Exact fractions <<numerator, denominator>>, denominator > 0, reduced *)

Abs(x) == IF x < 0 THEN -x ELSE x

RECURSIVE GCD(_, _)
GCD(a, b) == IF b = 0 THEN a ELSE GCD(b, a % b)

Frac(n, d) ==
    LET g == GCD(Abs(n), Abs(d))
        s == IF d < 0 THEN -1 ELSE 1
    IN  <<(s * n) \div g, (s * d) \div g>>

FInt(n) == <<n, 1>>
FAdd(p, q) == Frac(p[1] * q[2] + q[1] * p[2], p[2] * q[2])
FSub(p, q) == Frac(p[1] * q[2] - q[1] * p[2], p[2] * q[2])
FMul(p, q) == Frac(p[1] * q[1], p[2] * q[2])
FDiv(p, q) == Frac(p[1] * q[2], p[2] * q[1])
FPos(p) == p[1] > 0

\* Sum of a sequence of fractions / of integers (an empty sequence sums to 0).
RECURSIVE FSum(_)
FSum(s) == IF Len(s) = 0 THEN FInt(0) ELSE FAdd(Head(s), FSum(Tail(s)))

RECURSIVE ISum(_)
ISum(s) == IF Len(s) = 0 THEN 0 ELSE Head(s) + ISum(Tail(s))

----------------------------------------------------------------------------
(* Matrices: functions [Idx -> [Idx -> Int]] *)

MatAdd(a, b) == [i \in Idx |-> [j \in Idx |-> a[i][j] + b[i][j]]]

RemoveAt(s, k) == [i \in 1..(Len(s) - 1) |-> IF i < k THEN s[i] ELSE s[i + 1]]

\* Determinant by expansion along the first row, on the sub-matrix of the
\* given rows and columns (sequences of indices of equal length).
RECURSIVE DetOn(_, _, _)
DetOn(m, rows, cols) ==
    IF Len(rows) = 0 THEN 1
    ELSE ISum([c \in 1..Len(cols) |->
                 (IF c % 2 = 1 THEN 1 ELSE -1) * m[rows[1]][cols[c]]
                 * DetOn(m, Tail(rows), RemoveAt(cols, c))])

Upto(n) == [i \in 1..n |-> i]

Det(m) == DetOn(m, Upto(Dim), Upto(Dim))

\* The k-th leading principal minor of the symmetric matrix read from the
\* lower triangle of m.
LowerSym(m) == [i \in Idx |-> [j \in Idx |-> IF j <= i THEN m[i][j] ELSE m[j][i]]]

LeadingMinor(m, k) == DetOn(m, Upto(k), Upto(k))

IsSymmetric(m) == \A i, j \in Idx : m[i][j] = m[j][i]

\* Sylvester's criterion.
IsPosDef(m) == IsSymmetric(m) /\ \A k \in Idx : LeadingMinor(m, k) > 0

----------------------------------------------------------------------------
(* Outcomes of a call: a returned value or a raised exception *)

Value(v) == [kind |-> "value", val |-> v]
Raise(e) == [kind |-> "raise", exc |-> e]

None == [set |-> FALSE]
Some(v) == [set |-> TRUE, val |-> v]

\* The number log(x), x a positive fraction, is represented by x.
Log(x) == [log |-> x]

RECURSIVE FProd(_)
FProd(s) == IF Len(s) = 0 THEN FInt(1) ELSE FMul(Head(s), FProd(Tail(s)))

----------------------------------------------------------------------------
(* numpy / scipy routines the accessors call *)

\* np.add(x1, x2, out=x1): the sum overwrites the first operand.
np_add_in_place(x1, x2) == [result |-> MatAdd(x1, x2), x1 |-> MatAdd(x1, x2)]

\* np.add(x1, x2) without out=: a new array holds the sum, x1 is not written.
np_add(x1, x2) == [result |-> MatAdd(x1, x2), x1 |-> x1]

\* np.linalg.cholesky(a) (LAPACK potrf, lower): reads the lower triangle of a
\* only; column j fails when its pivot a[j][j] - sum_k L[j][k]^2 is not
\* positive. The factor L is kept as L = l * sqrt(d): l unit lower triangular,
\* d[j] the pivot of column j, so diag(L)[j]^2 = d[j].
RECURSIVE potrf(_, _, _, _)
potrf(a, j, l, d) ==
    IF j > Len(a) THEN Value([l |-> l, d |-> d])
    ELSE LET ajj == FSub(FInt(a[j][j]),
                         FSum([k \in 1..(j - 1) |-> FMul(FMul(l[j][k], l[j][k]), d[k])]))
             Col(i) == FDiv(FSub(FInt(a[i][j]),
                                 FSum([k \in 1..(j - 1) |->
                                          FMul(FMul(l[i][k], l[j][k]), d[k])])),
                            ajj)
         IN  IF ~FPos(ajj) THEN Raise("LinAlgError")
             ELSE potrf(a, j + 1,
                        [i \in 1..Len(a) |-> [k \in 1..Len(a) |->
                            IF k = j /\ i = j THEN FInt(1)
                            ELSE IF k = j /\ i > j THEN Col(i)
                            ELSE l[i][k]]],
                        [d EXCEPT ![j] = ajj])

np_linalg_cholesky(a) ==
    potrf(a, 1, [i \in 1..Len(a) |-> [k \in 1..Len(a) |-> FInt(0)]],
          [k \in 1..Len(a) |-> FInt(0)])

\* np.linalg.inv(a): LinAlgError on a singular matrix, else the inverse
\* (the transposed cofactors over the determinant).
Without(k) == RemoveAt(Upto(Dim), k)

Cofactor(a, i, j) ==
    (IF (i + j) % 2 = 0 THEN 1 ELSE -1) * DetOn(a, Without(i), Without(j))

np_linalg_inv(a) ==
    IF Det(a) = 0 THEN Raise("LinAlgError")
    ELSE Value([i \in Idx |-> [j \in Idx |-> Frac(Cofactor(a, j, i), Det(a))]])

\* splu(csc_matrix(a)): RuntimeError ("Factor is exactly singular") when no
\* non-zero pivot is left, i.e. when a is singular; else factors whose
\* diagonals multiply to det(a) up to the sign of the permutations.
splu(a) ==
    IF Det(a) = 0 THEN Raise("RuntimeError")
    ELSE Value([diagL |-> FInt(1), diagU |-> FInt(Det(a))])

\* inversion_util.reconstruction_from: solves (L L^T) S = D with the factor,
\* by forward and back substitution.
RECURSIVE Forward(_, _, _, _)
Forward(l, b, i, z) ==
    IF i > Dim THEN z
    ELSE Forward(l, b, i + 1,
                 [z EXCEPT ![i] = FSub(FInt(b[i]),
                                       FSum([k \in 1..(i - 1) |-> FMul(l[i][k], z[k])]))])

RECURSIVE Backward(_, _, _, _)
Backward(l, y, i, s) ==
    IF i < 1 THEN s
    ELSE Backward(l, y, i - 1,
                  [s EXCEPT ![i] = FSub(y[i],
                                        FSum([k \in 1..(Dim - i) |->
                                                 FMul(l[i + k][i], s[i + k])]))])

reconstruction_from(data_vector, cholesky) ==
    LET zero == [i \in Idx |-> FInt(0)]
        z == Forward(cholesky.l, data_vector, 1, zero)
        y == [i \in Idx |-> FDiv(z[i], cholesky.d[i])]
    IN  Backward(cholesky.l, y, Dim, zero)

----------------------------------------------------------------------------
(* InversionMatrices: the accessors of one instance.                       *)
(* An evaluation threads st = [cache, leq, ran, out]: the instance cache,  *)
(* the array held by the linear equation object, the computations run so   *)
(* far in this access (in order) and the outcome of the last call.         *)

CachedNames == {"data_vector", "curvature_reg_matrix",
                "curvature_reg_matrix_cholesky", "reconstruction",
                "log_det_curvature_reg_matrix_term",
                "log_det_regularization_matrix_term"}

Ran(st, c) == [st EXCEPT !.ran = Append(@, c)]
Return(st, v) == [st EXCEPT !.out = Value(v)]
Throw(st, e) == [st EXCEPT !.out = Raise(e)]
Raised(st) == st.out.kind = "raise"

\* autoconf.cached_property: the first call that returns stores its value in
\* the instance; a call that raises stores nothing.
\* `computed` is the state the decorated body leaves when run from st; it
\* is consulted only when nothing is stored.
cached_property(name, st, computed) ==
    IF st.cache[name].set THEN Return(st, st.cache[name].val)
    ELSE IF Raised(computed) THEN computed
         ELSE [computed EXCEPT !.cache[name] = Some(computed.out.val)]

data_vector_body(st) == Return(Ran(st, "leq.data_vector_from"), D)

data_vector(st) == cached_property("data_vector", st, data_vector_body(st))

\* A plain property: every access asks the linear equation object again.
curvature_matrix(st) == Return(Ran(st, "leq.curvature_matrix"), st.leq)

curvature_reg_matrix_body(st) ==
    LET s1 == curvature_matrix(st)
        sum == np_add(s1.out.val, H)
    IN  [Return(Ran(s1, "np.add"), sum.result) EXCEPT !.leq = sum.x1]

\* curvature_reg_matrix as a plain property.
curvature_reg_matrix_uncached(st) == curvature_reg_matrix_body(st)

curvature_reg_matrix(st) ==
    cached_property("curvature_reg_matrix", st, curvature_reg_matrix_body(st))

\* The factorization without its try/except.
curvature_reg_matrix_cholesky_body_unguarded(st) ==
    LET s1 == curvature_reg_matrix(st)
    IN  [Ran(s1, "np.linalg.cholesky") EXCEPT !.out = np_linalg_cholesky(s1.out.val)]

curvature_reg_matrix_cholesky_body(st) ==
    LET s1 == curvature_reg_matrix(st)
        s2 == Ran(s1, "np.linalg.cholesky")
        r == np_linalg_cholesky(s1.out.val)
    IN  IF r.kind = "value" THEN Return(s2, r.val)
        ELSE IF r.exc = "LinAlgError" THEN Throw(s2, "InversionException")
        ELSE Throw(s2, r.exc)

\* curvature_reg_matrix_cholesky as a plain property.
curvature_reg_matrix_cholesky_uncached(st) == curvature_reg_matrix_cholesky_body(st)

curvature_reg_matrix_cholesky(st) ==
    cached_property("curvature_reg_matrix_cholesky", st,
                    curvature_reg_matrix_cholesky_body(st))

reconstruction_body(st) ==
    LET s1 == data_vector(st)
        s2 == curvature_reg_matrix_cholesky(s1)
    IN  IF Raised(s2) THEN s2
        ELSE Return(Ran(s2, "reconstruction_from"),
                    reconstruction_from(s1.out.val, s2.out.val))

\* reconstruction as a plain property.
reconstruction_uncached(st) == reconstruction_body(st)

reconstruction(st) == cached_property("reconstruction", st, reconstruction_body(st))

\* The logarithm of the sum of the squared diagonal, not the sum of the
\* logarithms.
log_sum_diag(cholesky) == Log(FSum([j \in 1..Len(cholesky.d) |-> cholesky.d[j]]))

\* 2.0 * np.sum(np.log(np.diag(cholesky))): the logarithm of the product of
\* the squared diagonal entries of L.
two_sum_log_diag(cholesky) == Log(FProd([j \in 1..Len(cholesky.d) |-> cholesky.d[j]]))

log_det_curvature_reg_matrix_term_body(st) ==
    LET s1 == curvature_reg_matrix_cholesky(st)
    IN  IF Raised(s1) THEN s1
        ELSE Return(Ran(s1, "sum_log_diag"), two_sum_log_diag(s1.out.val))

log_det_curvature_reg_matrix_term(st) ==
    cached_property("log_det_curvature_reg_matrix_term", st,
                    log_det_curvature_reg_matrix_term_body(st))

\* The computation with the preloads left unread.
log_det_regularization_matrix_term_body_without_preloads(st) ==
    LET s1 == Ran(st, "splu")
        lu == splu(H)
    IN  IF lu.kind = "value"
        THEN Return(s1, Log(FInt(Abs(lu.val.diagL[1] * lu.val.diagU[1]))))
        ELSE Throw(s1, lu.exc)

\* The LU route alone: its failure raises at once, no Cholesky of H.
log_det_regularization_matrix_term_body_no_fallback(st) ==
    IF preloads.log_det_regularization_matrix_term.set
    THEN Return(st, preloads.log_det_regularization_matrix_term.val)
    ELSE LET s1 == Ran(st, "splu")
             lu == splu(H)
         IN  IF lu.kind = "value"
             THEN Return(s1, Log(FInt(Abs(lu.val.diagL[1] * lu.val.diagU[1]))))
             ELSE Throw(s1, "InversionException")

log_det_regularization_matrix_term_body(st) ==
    IF preloads.log_det_regularization_matrix_term.set
    THEN Return(st, preloads.log_det_regularization_matrix_term.val)
    ELSE LET s1 == Ran(st, "splu")
             lu == splu(H)
             s2 == Ran(s1, "np.linalg.cholesky(H)")
             ch == np_linalg_cholesky(H)
         IN  IF lu.kind = "value"
             THEN Return(s1, Log(FInt(Abs(lu.val.diagL[1] * lu.val.diagU[1]))))
             ELSE IF lu.exc # "RuntimeError" THEN Throw(s1, lu.exc)
             ELSE IF ch.kind = "value"
             THEN Return(s2, Log(FProd([j \in Idx |-> ch.val.d[j]])))
             ELSE IF ch.exc = "LinAlgError" THEN Throw(s2, "InversionException")
             ELSE Throw(s2, ch.exc)

log_det_regularization_matrix_term(st) ==
    cached_property("log_det_regularization_matrix_term", st,
                    log_det_regularization_matrix_term_body(st))

\* The inverse obtained through the Cholesky factor.
errors_with_covariance_via_cholesky(st) ==
    LET s1 == curvature_reg_matrix_cholesky(st)
        s2 == curvature_reg_matrix(s1)
    IN  IF Raised(s1) THEN s1
        ELSE [Ran(s2, "np.linalg.inv") EXCEPT !.out = np_linalg_inv(s2.out.val)]

errors_with_covariance(st) ==
    LET s1 == curvature_reg_matrix(st)
    IN  [Ran(s1, "np.linalg.inv") EXCEPT !.out = np_linalg_inv(s1.out.val)]

errors(st) ==
    LET s1 == errors_with_covariance(st)
    IN  IF Raised(s1) THEN s1
        ELSE Return(s1, [i \in Idx |-> s1.out.val[i][i]])

----------------------------------------------------------------------------
(* The instance after construction, and one action per accessor *)

Pairs == {p \in Idx \X Idx : p[1] < p[2]}

RegMatrices ==
    {[i \in Idx |-> [j \in Idx |->
         IF i = j THEN dg[i] ELSE IF i < j THEN off[<<i, j>>] ELSE off[<<j, i>>]]] :
     dg \in [Idx -> RegDiagValues], off \in [Pairs -> RegOffValues]}

\* F = f^T f for one image pixel of unit noise and unit data value.
CurvatureOf(f) == [i \in Idx |-> [j \in Idx |-> f[i] * f[j]]]

NoCall == [fn |-> "none"]
NoOutcome == [kind |-> "none"]

Init ==
    /\ call = NoCall
    /\ result = NoOutcome
    /\ mapping \in [Idx -> MapValues]
    /\ F0 = CurvatureOf(mapping)
    /\ D = mapping
    /\ H \in RegMatrices
    /\ preloads = [log_det_regularization_matrix_term |-> None]
    /\ leqCurv = F0
    /\ cache = [n \in CachedNames |-> None]
    /\ last = [acc |-> "none", hit |-> FALSE, ran |-> <<>>, out |-> NoOutcome]
    /\ everRan = {}
    /\ firstReconstruction = None

Start == [cache |-> cache, leq |-> leqCurv, ran |-> <<>>, out |-> NoOutcome]

Range(s) == {s[i] : i \in 1..Len(s)}

Access(name, r) ==
    /\ cache' = r.cache
    /\ leqCurv' = r.leq
    /\ last' = [acc |-> name,
                hit |-> name \in CachedNames /\ cache[name].set,
                ran |-> r.ran,
                out |-> r.out]
    /\ everRan' = everRan \cup Range(r.ran)
    /\ firstReconstruction' =
           IF name = "reconstruction" /\ ~firstReconstruction.set /\ ~Raised(r)
           THEN Some(r.out.val) ELSE firstReconstruction
    /\ UNCHANGED <<mapping, F0, H, D, preloads, callVars>>

AccessDataVector == Access("data_vector", data_vector(Start))

AccessCurvatureMatrix == Access("curvature_matrix", curvature_matrix(Start))

AccessCurvatureRegMatrix == Access("curvature_reg_matrix", curvature_reg_matrix(Start))

AccessCurvatureRegMatrixCholesky ==
    Access("curvature_reg_matrix_cholesky", curvature_reg_matrix_cholesky(Start))

AccessReconstruction == Access("reconstruction", reconstruction(Start))

AccessLogDetCurvatureRegMatrixTerm ==
    Access("log_det_curvature_reg_matrix_term", log_det_curvature_reg_matrix_term(Start))

AccessLogDetRegularizationMatrixTerm ==
    Access("log_det_regularization_matrix_term", log_det_regularization_matrix_term(Start))

AccessErrorsWithCovariance == Access("errors_with_covariance", errors_with_covariance(Start))

AccessErrors == Access("errors", errors(Start))

Next ==
    \/ AccessDataVector
    \/ AccessCurvatureMatrix
    \/ AccessCurvatureRegMatrix
    \/ AccessCurvatureRegMatrixCholesky
    \/ AccessReconstruction
    \/ AccessLogDetCurvatureRegMatrixTerm
    \/ AccessLogDetRegularizationMatrixTerm
    \/ AccessErrorsWithCovariance
    \/ AccessErrors

Spec == Init /\ [][Next]_vars

\* An inversion whose preloads hold a log determinant of the regularization
\* matrix (a value no factorization of H in the model yields).
PreloadedTerm == Log(Frac(1, 7))

InitPreload ==
    /\ call = NoCall
    /\ result = NoOutcome
    /\ mapping \in [Idx -> MapValues]
    /\ F0 = CurvatureOf(mapping)
    /\ D = mapping
    /\ H \in RegMatrices
    /\ preloads = [log_det_regularization_matrix_term |-> Some(PreloadedTerm)]
    /\ leqCurv = F0
    /\ cache = [n \in CachedNames |-> None]
    /\ last = [acc |-> "none", hit |-> FALSE, ran |-> <<>>, out |-> NoOutcome]
    /\ everRan = {}
    /\ firstReconstruction = None

SpecPreload == InitPreload /\ [][Next]_vars

----------------------------------------------------------------------------
(* pixelization_util.py: neighbor kernels.                                 *)
(* Arrays are indexed from 0 as in the source. nb = [pixel_neighbors,      *)
(* pixel_neighbors_sizes]; shape_native[0] is shape[1], shape_native[1] is *)
(* shape[2]. A negative index counts from the end, as numpy's does.        *)

PyIndex(i, n) == IF i < 0 THEN i + n ELSE i

\* pixel_neighbors[index, 0:Len(values)] = values; pixel_neighbors_sizes[index] = size
SetNeighbors(nb, index, values, size) ==
    LET n == Cardinality(DOMAIN nb.pixel_neighbors_sizes)
        at == PyIndex(index, n)
    IN  [pixel_neighbors |->
             [nb.pixel_neighbors EXCEPT ![at] =
                 [k \in DOMAIN @ |-> IF k < Len(values) THEN values[k + 1] ELSE @[k]]],
         pixel_neighbors_sizes |-> [nb.pixel_neighbors_sizes EXCEPT ![at] = size]]

rectangular_corner_neighbors(nb, shape) ==
    LET pixels == shape[1] * shape[2]
        n1 == SetNeighbors(nb, 0, <<1, shape[2]>>, 2)
        n2 == SetNeighbors(n1, shape[2] - 1,
                           <<shape[2] - 2, shape[2] + shape[2] - 1>>, 2)
        n3 == SetNeighbors(n2, pixels - shape[2],
                           <<pixels - shape[2] * 2, pixels - shape[2] + 1>>, 2)
    IN  SetNeighbors(n3, pixels - 1, <<pixels - shape[2] - 1, pixels - 2>>, 2)

RECURSIVE top_edge_loop(_, _, _)
top_edge_loop(nb, shape, pix) ==
    IF pix >= shape[2] - 1 THEN nb
    ELSE top_edge_loop(
             SetNeighbors(nb, pix, <<pix - 1, pix + 1, pix + shape[2]>>, 3),
             shape, pix + 1)

rectangular_top_edge_neighbors(nb, shape) == top_edge_loop(nb, shape, 1)

RECURSIVE left_edge_loop(_, _, _)
left_edge_loop(nb, shape, pix) ==
    IF pix >= shape[1] - 1 THEN nb
    ELSE LET pixel_index == pix * shape[2]
         IN  left_edge_loop(
                 SetNeighbors(nb, pixel_index,
                              <<pixel_index - shape[2], pixel_index + 1,
                                pixel_index + shape[2]>>, 3),
                 shape, pix + 1)

rectangular_left_edge_neighbors(nb, shape) == left_edge_loop(nb, shape, 1)

RECURSIVE right_edge_loop(_, _, _)
right_edge_loop(nb, shape, pix) ==
    IF pix >= shape[1] - 1 THEN nb
    ELSE LET pixel_index == pix * shape[2] + shape[2] - 1
         IN  right_edge_loop(
                 SetNeighbors(nb, pixel_index,
                              <<pixel_index - shape[2], pixel_index - 1,
                                pixel_index + shape[2]>>, 3),
                 shape, pix + 1)

rectangular_right_edge_neighbors(nb, shape) == right_edge_loop(nb, shape, 1)

\* The bottom edge with its pixel index one too high.
RECURSIVE bottom_edge_loop_off_by_one(_, _, _)
bottom_edge_loop_off_by_one(nb, shape, pix) ==
    IF pix >= shape[2] - 1 THEN nb
    ELSE LET pixel_index == shape[1] * shape[2] - pix
         IN  bottom_edge_loop_off_by_one(
                 SetNeighbors(nb, pixel_index,
                              <<pixel_index - shape[2], pixel_index - 1,
                                pixel_index + 1>>, 3),
                 shape, pix + 1)

RECURSIVE bottom_edge_loop(_, _, _)
bottom_edge_loop(nb, shape, pix) ==
    IF pix >= shape[2] - 1 THEN nb
    ELSE LET pixel_index == shape[1] * shape[2] - pix - 1
         IN  bottom_edge_loop(
                 SetNeighbors(nb, pixel_index,
                              <<pixel_index - shape[2], pixel_index - 1,
                                pixel_index + 1>>, 3),
                 shape, pix + 1)

rectangular_bottom_edge_neighbors(nb, shape) == bottom_edge_loop(nb, shape, 1)

RECURSIVE central_loop(_, _, _, _)
central_loop(nb, shape, x, y) ==
    IF x >= shape[1] - 1 THEN nb
    ELSE IF y >= shape[2] - 1 THEN central_loop(nb, shape, x + 1, 1)
    ELSE LET pixel_index == x * shape[2] + y
         IN  central_loop(
                 SetNeighbors(nb, pixel_index,
                              <<pixel_index - shape[2], pixel_index - 1,
                                pixel_index + 1, pixel_index + shape[2]>>, 4),
                 shape, x, y + 1)

rectangular_central_neighbors(nb, shape) == central_loop(nb, shape, 1, 1)

rectangular_neighbors_from(shape) ==
    LET pixels == shape[1] * shape[2]
        nb0 == [pixel_neighbors |-> [i \in 0..(pixels - 1) |-> [k \in 0..3 |-> -1]],
                pixel_neighbors_sizes |-> [i \in 0..(pixels - 1) |-> 0]]
    IN  rectangular_central_neighbors(
          rectangular_bottom_edge_neighbors(
            rectangular_right_edge_neighbors(
              rectangular_left_edge_neighbors(
                rectangular_top_edge_neighbors(
                  rectangular_corner_neighbors(nb0, shape), shape), shape), shape), shape),
          shape)

\* The first loop of voronoi_neighbors_from: count the ridges at each pixel.
RECURSIVE voronoi_count_loop(_, _, _)
voronoi_count_loop(sizes, ridge_points, ridge_index) ==
    IF ridge_index > Len(ridge_points) THEN sizes
    ELSE LET pair0 == ridge_points[ridge_index][1]
             pair1 == ridge_points[ridge_index][2]
             s1 == [sizes EXCEPT ![pair0] = @ + 1]
         IN  voronoi_count_loop([s1 EXCEPT ![pair1] = @ + 1],
                                ridge_points, ridge_index + 1)

\* The second loop writing pair0 into the row of pair1 at the position of pair0.
RECURSIVE voronoi_fill_loop_wrong_slot(_, _, _, _)
voronoi_fill_loop_wrong_slot(pixel_neighbors, pixel_neighbors_index, ridge_points, ridge_index) ==
    IF ridge_index > Len(ridge_points) THEN pixel_neighbors
    ELSE LET pair0 == ridge_points[ridge_index][1]
             pair1 == ridge_points[ridge_index][2]
             p1 == [pixel_neighbors EXCEPT ![pair0][pixel_neighbors_index[pair0]] = pair1]
             p2 == [p1 EXCEPT ![pair1][pixel_neighbors_index[pair0]] = pair0]
             i1 == [pixel_neighbors_index EXCEPT ![pair0] = @ + 1]
         IN  voronoi_fill_loop_wrong_slot(p2, [i1 EXCEPT ![pair1] = @ + 1],
                                          ridge_points, ridge_index + 1)

\* The second loop: enter each end of a ridge in the row of the other.
RECURSIVE voronoi_fill_loop(_, _, _, _)
voronoi_fill_loop(pixel_neighbors, pixel_neighbors_index, ridge_points, ridge_index) ==
    IF ridge_index > Len(ridge_points) THEN pixel_neighbors
    ELSE LET pair0 == ridge_points[ridge_index][1]
             pair1 == ridge_points[ridge_index][2]
             p1 == [pixel_neighbors EXCEPT ![pair0][pixel_neighbors_index[pair0]] = pair1]
             p2 == [p1 EXCEPT ![pair1][pixel_neighbors_index[pair1]] = pair0]
             i1 == [pixel_neighbors_index EXCEPT ![pair0] = @ + 1]
         IN  voronoi_fill_loop(p2, [i1 EXCEPT ![pair1] = @ + 1],
                               ridge_points, ridge_index + 1)

NpMax(a) == CHOOSE m \in {a[i] : i \in DOMAIN a} : \A i \in DOMAIN a : a[i] <= m

voronoi_neighbors_from(pixels, ridge_points) ==
    LET sizes == voronoi_count_loop([i \in 0..(pixels - 1) |-> 0], ridge_points, 1)
        width == NpMax(sizes)
    IN  [pixel_neighbors |->
             voronoi_fill_loop([i \in 0..(pixels - 1) |-> [k \in 0..(width - 1) |-> -1]],
                               [i \in 0..(pixels - 1) |-> 0], ridge_points, 1),
         pixel_neighbors_sizes |-> sizes]

----------------------------------------------------------------------------
(* The neighbor kernels applied to drawn arguments (specification          *)
(* SpecNeighbors)                                                          *)

Shapes == (1..MaxSide) \X (1..MaxSide)

RidgesOfLength(pixels, n) == [1..n -> (0..(pixels - 1)) \X (0..(pixels - 1))]

PendingNeighborCall ==
    \/ \E sh \in Shapes :
           call = [fn |-> "rectangular_neighbors_from", shape_native |-> sh]
    \/ \E n \in 1..MaxPixels : \E k \in 0..MaxRidges : \E rp \in RidgesOfLength(n, k) :
           call = [fn |-> "voronoi_neighbors_from", pixels |-> n, ridge_points |-> rp]

InversionIdle ==
    /\ mapping = [i \in Idx |-> 0]
    /\ F0 = CurvatureOf(mapping)
    /\ D = mapping
    /\ H = [i \in Idx |-> [j \in Idx |-> 0]]
    /\ preloads = [log_det_regularization_matrix_term |-> None]
    /\ leqCurv = F0
    /\ cache = [n \in CachedNames |-> None]
    /\ last = [acc |-> "none", hit |-> FALSE, ran |-> <<>>, out |-> NoOutcome]
    /\ everRan = {}
    /\ firstReconstruction = None

InitNeighbors ==
    /\ InversionIdle
    /\ PendingNeighborCall
    /\ result = NoOutcome

RectangularNeighborsFrom ==
    /\ call.fn = "rectangular_neighbors_from"
    /\ result.kind = "none"
    /\ result' = Value(rectangular_neighbors_from(call.shape_native))
    /\ UNCHANGED <<call, invVars>>

VoronoiNeighborsFrom ==
    /\ call.fn = "voronoi_neighbors_from"
    /\ result.kind = "none"
    /\ result' = Value(voronoi_neighbors_from(call.pixels, call.ridge_points))
    /\ UNCHANGED <<call, invVars>>

NextNeighbors == RectangularNeighborsFrom \/ VoronoiNeighborsFrom

SpecNeighbors == InitNeighbors /\ [][NextNeighbors]_vars

----------------------------------------------------------------------------
(* The curvature matrix of an imaging dataset, by its two routes.          *)
(* A dataset is [psf, weight]: a kernel on the offsets -1, 0, 1 of a row   *)
(* of ImagePixels pixels, and the inverse noise variance of each pixel.    *)
(* A mapping matrix is [pixel -> [source pixel -> weight]].                *)

Pix == 1..ImagePixels

\* The two pixelizations fitted jointly: 1 and 2 source pixels, columns 1 and 2..3.
Sources == 1..3

\* Interpolation weights are in units of 1 / WeightUnit.
WeightUnit == 2

\* B[i][k]: the share of the flux of image pixel k the PSF puts into pixel i.
Blur(psf) == [i \in Pix |-> [k \in Pix |-> IF Abs(i - k) <= 1 THEN psf[i - k] ELSE 0]]

\* operated_mapping_matrix: every column of the mapping matrix convolved with the PSF.
blurred_mapping_matrix_from(psf, mapping_matrix) ==
    LET B == Blur(psf)
    IN  [i \in Pix |-> [a \in Sources |->
            ISum([k \in Pix |-> B[i][k] * mapping_matrix[k][a]])]]

\* F = f^T diag(1 / noise^2) f on the blurred mapping matrix.
curvature_matrix_via_mapping_matrix_from(dataset, mapping_matrix) ==
    LET f == blurred_mapping_matrix_from(dataset.psf, mapping_matrix)
    IN  [a \in Sources |-> [b \in Sources |->
            ISum([i \in Pix |-> dataset.weight[i] * f[i][a] * f[i][b]])]]

\* The pairwise terms without the noise weighting.
w_tilde_unweighted_from(dataset) ==
    [k \in Pix |-> [l \in Pix |->
        ISum([i \in Pix |-> Blur(dataset.psf)[i][k] * Blur(dataset.psf)[i][l]])]]

\* w_tilde: the noise-weighted PSF terms of every pair of image pixels,
\* computed from the dataset alone.
w_tilde_from(dataset) ==
    LET B == Blur(dataset.psf)
    IN  [k \in Pix |-> [l \in Pix |->
            ISum([i \in Pix |-> dataset.weight[i] * B[i][k] * B[i][l]])]]

\* F from w_tilde and the mapping matrix that has not been blurred.
curvature_matrix_via_w_tilde_from(dataset, mapping_matrix) ==
    LET w == w_tilde_from(dataset)
    IN  [a \in Sources |-> [b \in Sources |->
            ISum([k \in Pix |->
                     ISum([l \in Pix |-> mapping_matrix[k][a] * w[k][l] * mapping_matrix[l][b]])])]]

curvature_matrix_from(dataset, mapping_matrix, use_w_tilde) ==
    IF use_w_tilde THEN curvature_matrix_via_w_tilde_from(dataset, mapping_matrix)
    ELSE curvature_matrix_via_mapping_matrix_from(dataset, mapping_matrix)

\* Rows of a nearest-neighbour mapper (one source pixel, the whole weight) and
\* of an interpolating one (the weight shared among the source pixels).
MapperRows(interpolating) ==
    {r \in [2..3 -> 0..WeightUnit] :
        /\ r[2] + r[3] = WeightUnit
        /\ ~interpolating => WeightUnit \in {r[2], r[3]}}

MappingMatrix(rows) ==
    [k \in Pix |-> [a \in Sources |-> IF a = 1 THEN WeightUnit ELSE rows[k][a]]]

PendingCurvatureCall ==
    \E ip \in BOOLEAN : \E rows \in [Pix -> MapperRows(ip)] :
    \E psf \in [-1..1 -> {0, 1}] : \E weight \in [Pix -> {1, 2}] : \E wt \in BOOLEAN :
        call = [fn |-> "curvature_matrix",
                dataset |-> [psf |-> psf, weight |-> weight],
                interpolating |-> ip,
                mapping_matrix |-> MappingMatrix(rows),
                use_w_tilde |-> wt]

InitCurvature ==
    /\ InversionIdle
    /\ PendingCurvatureCall
    /\ result = NoOutcome

CurvatureMatrix ==
    /\ call.fn = "curvature_matrix"
    /\ result.kind = "none"
    /\ result' = Value(curvature_matrix_from(call.dataset, call.mapping_matrix,
                                             call.use_w_tilde))
    /\ UNCHANGED <<call, invVars>>

NextCurvature == CurvatureMatrix

SpecCurvature == InitCurvature /\ [][NextCurvature]_vars

----------------------------------------------------------------------------
(* regularization_util.py: regularization matrices.                        *)
(* An entry of a regularization matrix is floor * 1e-8 + coef, kept as the *)
(* pair of the two integers, so the diagonal floor stays exact next to the *)
(* integer coefficients. Arrays are indexed from 0 as in the source.       *)

\* Voronoi tables handed to the regularization schemes have 1..RegPixels
\* pixels and come from at most RegRidges ridges.
RegPixels == 3
RegRidges == 2

\* Regularization coefficients, and the (inner, outer) pairs and pixel
\* signals of the adaptive scheme.
Coefficients == {0, 1, 2}
AdaptiveCoefficients == {<<2, 3>>}
SignalValues == {0, 1}

RegValue(floor, coef) == [floor |-> floor, coef |-> coef]

RegPlus(v, floor, coef) == [floor |-> v.floor + floor, coef |-> v.coef + coef]

np_zeros(pixels) == [i \in 0..(pixels - 1) |-> [j \in 0..(pixels - 1) |-> RegValue(0, 0)]]

\* regularization_matrix[i, j] += floor * 1e-8 + coef, with numpy's reading
\* of a negative index.
AddAt(regularization_matrix, i, j, floor, coef) ==
    LET pixels == Cardinality(DOMAIN regularization_matrix)
    IN  [regularization_matrix EXCEPT
            ![PyIndex(i, pixels)][PyIndex(j, pixels)] = RegPlus(@, floor, coef)]

\* x ** 2.0
Square(x) == x * x

\* The inner loop adding the coefficient to the off-diagonal entry.
RECURSIVE constant_neighbor_loop_off_diagonal_added(_, _, _, _, _, _)
constant_neighbor_loop_off_diagonal_added(regularization_matrix, regularization_coefficient, pixel_neighbors, pixel_neighbors_sizes, i, j) ==
    IF j >= pixel_neighbors_sizes[i] THEN regularization_matrix
    ELSE LET neighbor_index == pixel_neighbors[i][j]
             m1 == AddAt(regularization_matrix, i, i, 0, regularization_coefficient)
             m2 == AddAt(m1, i, neighbor_index, 0, regularization_coefficient)
         IN  constant_neighbor_loop_off_diagonal_added(m2, regularization_coefficient,
                 pixel_neighbors, pixel_neighbors_sizes, i, j + 1)

\* The inner loop of constant_regularization_matrix_from over the neighbors of i.
RECURSIVE constant_neighbor_loop(_, _, _, _, _, _)
constant_neighbor_loop(regularization_matrix, regularization_coefficient, pixel_neighbors, pixel_neighbors_sizes, i, j) ==
    IF j >= pixel_neighbors_sizes[i] THEN regularization_matrix
    ELSE LET neighbor_index == pixel_neighbors[i][j]
             m1 == AddAt(regularization_matrix, i, i, 0, regularization_coefficient)
             m2 == AddAt(m1, i, neighbor_index, 0, -regularization_coefficient)
         IN  constant_neighbor_loop(m2, regularization_coefficient,
                                    pixel_neighbors, pixel_neighbors_sizes, i, j + 1)

\* The outer loop without the += 1e-8 on the diagonal.
RECURSIVE constant_pixel_loop_no_floor(_, _, _, _, _)
constant_pixel_loop_no_floor(regularization_matrix, regularization_coefficient, pixel_neighbors, pixel_neighbors_sizes, i) ==
    IF i >= Cardinality(DOMAIN pixel_neighbors) THEN regularization_matrix
    ELSE constant_pixel_loop_no_floor(
             constant_neighbor_loop(regularization_matrix, regularization_coefficient,
                                    pixel_neighbors, pixel_neighbors_sizes, i, 0),
             regularization_coefficient, pixel_neighbors, pixel_neighbors_sizes, i + 1)

\* The outer loop of constant_regularization_matrix_from over the pixels.
RECURSIVE constant_pixel_loop(_, _, _, _, _)
constant_pixel_loop(regularization_matrix, regularization_coefficient, pixel_neighbors, pixel_neighbors_sizes, i) ==
    IF i >= Cardinality(DOMAIN pixel_neighbors) THEN regularization_matrix
    ELSE constant_pixel_loop(
             constant_neighbor_loop(AddAt(regularization_matrix, i, i, 1, 0),
                                    regularization_coefficient,
                                    pixel_neighbors, pixel_neighbors_sizes, i, 0),
             regularization_coefficient, pixel_neighbors, pixel_neighbors_sizes, i + 1)

constant_regularization_matrix_from(coefficient, pixel_neighbors, pixel_neighbors_sizes) ==
    LET pixels == Cardinality(DOMAIN pixel_neighbors)
        regularization_coefficient == Square(coefficient)
    IN  constant_pixel_loop(np_zeros(pixels), regularization_coefficient,
                            pixel_neighbors, pixel_neighbors_sizes, 0)

\* The weights without the final ** 2.0.
adaptive_regularization_weights_unsquared_from(inner_coefficient, outer_coefficient, pixel_signals) ==
    [p \in DOMAIN pixel_signals |->
        inner_coefficient * pixel_signals[p] + outer_coefficient * (1 - pixel_signals[p])]

adaptive_regularization_weights_from(inner_coefficient, outer_coefficient, pixel_signals) ==
    [p \in DOMAIN pixel_signals |->
        Square(inner_coefficient * pixel_signals[p]
               + outer_coefficient * (1 - pixel_signals[p]))]

\* The inner loop without the update of the transposed entry [neighbor_index, i].
RECURSIVE weighted_neighbor_loop_one_sided(_, _, _, _, _, _)
weighted_neighbor_loop_one_sided(regularization_matrix, regularization_weight, pixel_neighbors, pixel_neighbors_sizes, i, j) ==
    IF j >= pixel_neighbors_sizes[i] THEN regularization_matrix
    ELSE LET neighbor_index == pixel_neighbors[i][j]
             pixels == Cardinality(DOMAIN regularization_matrix)
             w == regularization_weight[PyIndex(neighbor_index, pixels)]
             m1 == AddAt(regularization_matrix, i, i, 0, w)
             m2 == AddAt(m1, neighbor_index, neighbor_index, 0, w)
             m3 == AddAt(m2, i, neighbor_index, 0, -w)
         IN  weighted_neighbor_loop_one_sided(m3, regularization_weight,
                                              pixel_neighbors, pixel_neighbors_sizes, i, j + 1)

\* The inner loop of weighted_regularization_matrix_from over the neighbors of i.
RECURSIVE weighted_neighbor_loop(_, _, _, _, _, _)
weighted_neighbor_loop(regularization_matrix, regularization_weight, pixel_neighbors, pixel_neighbors_sizes, i, j) ==
    IF j >= pixel_neighbors_sizes[i] THEN regularization_matrix
    ELSE LET neighbor_index == pixel_neighbors[i][j]
             pixels == Cardinality(DOMAIN regularization_matrix)
             w == regularization_weight[PyIndex(neighbor_index, pixels)]
             m1 == AddAt(regularization_matrix, i, i, 0, w)
             m2 == AddAt(m1, neighbor_index, neighbor_index, 0, w)
             m3 == AddAt(m2, i, neighbor_index, 0, -w)
             m4 == AddAt(m3, neighbor_index, i, 0, -w)
         IN  weighted_neighbor_loop(m4, regularization_weight,
                                    pixel_neighbors, pixel_neighbors_sizes, i, j + 1)

RECURSIVE weighted_pixel_loop(_, _, _, _, _)
weighted_pixel_loop(regularization_matrix, regularization_weight, pixel_neighbors, pixel_neighbors_sizes, i) ==
    IF i >= Cardinality(DOMAIN regularization_weight) THEN regularization_matrix
    ELSE weighted_pixel_loop(
             weighted_neighbor_loop(AddAt(regularization_matrix, i, i, 1, 0),
                                    regularization_weight,
                                    pixel_neighbors, pixel_neighbors_sizes, i, 0),
             regularization_weight, pixel_neighbors, pixel_neighbors_sizes, i + 1)

weighted_regularization_matrix_from(regularization_weights, pixel_neighbors, pixel_neighbors_sizes) ==
    LET pixels == Cardinality(DOMAIN regularization_weights)
        regularization_weight == [p \in DOMAIN regularization_weights |->
                                     Square(regularization_weights[p])]
    IN  weighted_pixel_loop(np_zeros(pixels), regularization_weight,
                            pixel_neighbors, pixel_neighbors_sizes, 0)

\* reg_split_from works on the caller's arrays in place. arrays =
\* [splitted_mappings, splitted_sizes, splitted_weights]; `j` is the loop
\* variable of the function, which keeps the value the last loop that ran
\* gave it (None while no loop has run); out is "" while nothing is raised.
SplitState(arrays, j, flag, out) == [arrays |-> arrays, j |-> j, flag |-> flag, out |-> out]

InRow(arrays, i, j) == j \in DOMAIN arrays.splitted_mappings[i]

\* for j in range(splitted_sizes[i]): ... ; n is the range's end, fixed when the loop starts.
RECURSIVE reg_split_neighbor_loop(_, _, _, _, _, _, _)
reg_split_neighbor_loop(arrays, i, j, n, flag, last_j, max_j) ==
    IF j >= n THEN SplitState(arrays, last_j, flag, "")
    ELSE IF ~InRow(arrays, i, j) THEN SplitState(arrays, Some(j), flag, "IndexError")
    ELSE LET own == arrays.splitted_mappings[i][j] = i \div 4
             a1 == IF own THEN [arrays EXCEPT !.splitted_weights[i][j] = @ + 1] ELSE arrays
             f1 == IF own THEN 1 ELSE flag
         IN  IF j >= max_j THEN SplitState(a1, Some(j), f1, "FitException")
             ELSE reg_split_neighbor_loop(a1, i, j + 1, n, f1, Some(j), max_j)

\* if flag == 0: the own pixel index is appended at j + 1.
reg_split_append(st, i) ==
    IF st.flag # 0 THEN st
    ELSE IF ~st.j.set THEN [st EXCEPT !.out = "UnboundLocalError"]
    ELSE IF ~InRow(st.arrays, i, st.j.val + 1) THEN [st EXCEPT !.out = "IndexError"]
    ELSE [st EXCEPT !.arrays.splitted_mappings[i][st.j.val + 1] = i \div 4,
                    !.arrays.splitted_sizes[i] = @ + 1,
                    !.arrays.splitted_weights[i][st.j.val + 1] = 1]

\* for i in range(len(splitted_mappings)): ...
RECURSIVE reg_split_row_loop(_, _, _, _)
reg_split_row_loop(arrays, i, last_j, max_j) ==
    IF i >= Cardinality(DOMAIN arrays.splitted_mappings) THEN SplitState(arrays, last_j, 0, "")
    ELSE LET s1 == reg_split_neighbor_loop(arrays, i, 0, arrays.splitted_sizes[i], 0,
                                           last_j, max_j)
             s2 == reg_split_append(s1, i)
         IN  IF s1.out # "" THEN s1
             ELSE IF s2.out # "" THEN s2
             ELSE reg_split_row_loop(s2.arrays, i + 1, s2.j, max_j)

\* np.shape(splitted_weights)[1]
Slots(arrays) == Cardinality(DOMAIN arrays.splitted_weights[0])

reg_split_from(arrays) ==
    LET max_j == Slots(arrays) - 1
        negated == [arrays EXCEPT !.splitted_weights =
                       [i \in DOMAIN @ |-> [j \in DOMAIN @[i] |-> -1 * @[i][j]]]]
    IN  reg_split_row_loop(negated, 0, None, max_j)

----------------------------------------------------------------------------
(* The regularization routines applied to drawn arguments (specification   *)
(* SpecRegularization). Neighbor tables are those voronoi_neighbors_from   *)
(* builds from a ridge list.                                               *)

\* The splitted arrays have 1..MaxSlots neighbor slots; the first SplitRows
\* cross points are drawn freely, the others map to their own pixel alone.
MaxSlots == 2
SplitRows == 2

\* The cross points of two source pixels, four each.
CrossPoints == 0..7

SplitRow(i, slots, entries) ==
    [j \in 0..(slots - 1) |-> IF i < SplitRows THEN entries[i][j]
                              ELSE IF j = 0 THEN i \div 4 ELSE 1 - (i \div 4)]

SplitArrays(slots, entries, sizes) ==
    [splitted_mappings |-> [i \in CrossPoints |-> SplitRow(i, slots, entries)],
     splitted_sizes |-> [i \in CrossPoints |-> IF i < SplitRows THEN sizes[i] ELSE 1],
     splitted_weights |-> [i \in CrossPoints |-> [j \in 0..(slots - 1) |-> j + 1]]]

\* The entries b of the listed pairs <<i, b>>, in the order of the list.
DirectedEnds(i, pairs) ==
    LET s == SelectSeq(pairs, LAMBDA e : e[1] = i)
    IN  [k \in 1..Len(s) |-> s[k][2]]

\* A neighbor table in which a listed pair <<a, b>> makes b a neighbor of a
\* and not a one of b: rows padded with -1 to the longest row.
DirectedTable(pixels, pairs) ==
    LET sizes == [i \in 0..(pixels - 1) |-> Len(DirectedEnds(i, pairs))]
        width == NpMax(sizes)
    IN  [pixel_neighbors |->
             [i \in 0..(pixels - 1) |->
                 [k \in 0..(width - 1) |->
                     IF k < sizes[i] THEN DirectedEnds(i, pairs)[k + 1] ELSE -1]],
         pixel_neighbors_sizes |-> sizes]

PendingRegularizationCall ==
    \/ \E n \in 1..RegPixels : \E k \in 0..RegRidges : \E rp \in RidgesOfLength(n, k) :
       \E c \in Coefficients :
           call = [fn |-> "constant_regularization_matrix_from",
                   coefficient |-> c,
                   ridge_points |-> rp,
                   pixel_neighbors |-> voronoi_neighbors_from(n, rp).pixel_neighbors,
                   pixel_neighbors_sizes |->
                       voronoi_neighbors_from(n, rp).pixel_neighbors_sizes]
    \/ \E n \in 1..RegPixels : \E k \in 0..RegRidges : \E rp \in RidgesOfLength(n, k) :
       \E io \in AdaptiveCoefficients : \E sg \in [0..(n - 1) -> SignalValues] :
           call = [fn |-> "weighted_regularization_matrix_from",
                   inner_coefficient |-> io[1],
                   outer_coefficient |-> io[2],
                   pixel_signals |-> sg,
                   ridge_points |-> rp,
                   pixel_neighbors |-> voronoi_neighbors_from(n, rp).pixel_neighbors,
                   pixel_neighbors_sizes |->
                       voronoi_neighbors_from(n, rp).pixel_neighbors_sizes]
    \/ \E n \in 1..RegPixels : \E k \in 0..RegRidges : \E rp \in RidgesOfLength(n, k) :
       \E io \in AdaptiveCoefficients : \E b \in SignalValues :
           call = [fn |-> "weighted_regularization_matrix_from",
                   inner_coefficient |-> io[1],
                   outer_coefficient |-> io[2],
                   pixel_signals |-> [p \in 0..(n - 1) |-> (p + b) % 2],
                   ridge_points |-> rp,
                   pixel_neighbors |-> DirectedTable(n, rp).pixel_neighbors,
                   pixel_neighbors_sizes |-> DirectedTable(n, rp).pixel_neighbors_sizes]
    \/ \E slots \in 1..MaxSlots :
       \E entries \in [0..(SplitRows - 1) -> [0..(slots - 1) -> {0, 1}]] :
       \E sizes \in [0..(SplitRows - 1) -> 0..(slots + 1)] :
           call = [fn |-> "reg_split_from",
                   arrays |-> SplitArrays(slots, entries, sizes),
                   on_entry |-> SplitArrays(slots, entries, sizes)]

InitRegularization ==
    /\ InversionIdle
    /\ PendingRegularizationCall
    /\ result = NoOutcome

ConstantRegularizationMatrixFrom ==
    /\ call.fn = "constant_regularization_matrix_from"
    /\ result.kind = "none"
    /\ result' = Value(constant_regularization_matrix_from(
                          call.coefficient, call.pixel_neighbors, call.pixel_neighbors_sizes))
    /\ UNCHANGED <<call, invVars>>

\* The adaptive scheme: the weights of the pixel signals, then the matrix.
WeightedRegularizationMatrixFrom ==
    /\ call.fn = "weighted_regularization_matrix_from"
    /\ result.kind = "none"
    /\ result' = Value(weighted_regularization_matrix_from(
                          adaptive_regularization_weights_from(
                              call.inner_coefficient, call.outer_coefficient,
                              call.pixel_signals),
                          call.pixel_neighbors, call.pixel_neighbors_sizes))
    /\ UNCHANGED <<call, invVars>>

\* The arrays are the caller's: what the call wrote stays written, also
\* when it raises.
RegSplitFrom ==
    /\ call.fn = "reg_split_from"
    /\ result.kind = "none"
    /\ LET r == reg_split_from(call.arrays)
       IN  /\ call' = [call EXCEPT !.arrays = r.arrays]
           /\ result' = IF r.out = "" THEN Value(r.arrays) ELSE Raise(r.out)
    /\ UNCHANGED invVars

NextRegularization ==
    \/ ConstantRegularizationMatrixFrom
    \/ WeightedRegularizationMatrixFrom
    \/ RegSplitFrom

SpecRegularization == InitRegularization /\ [][NextRegularization]_vars

----------------------------------------------------------------------------
(* regularization_util.py: the pixel-splitted constant scheme              *)
(* (specification SpecSplitted). The matrix is accumulated in entries      *)
(* floor * 1e-8 + coef of integers and returned, the diagonal halved, in   *)
(* entries of fractions.                                                   *)

\* for m in range(temp_size - l): both entries of the pair (l, l + m).
RECURSIVE splitted_pair_loop(_, _, _, _, _, _, _)
splitted_pair_loop(regularization_matrix, temp_mapping, temp_weight, temp_size, l, m, coef) ==
    IF m >= temp_size - l THEN regularization_matrix
    ELSE LET amount == temp_weight[l] * temp_weight[l + m] * coef
             m1 == AddAt(regularization_matrix, temp_mapping[l], temp_mapping[l + m], 0, amount)
             m2 == AddAt(m1, temp_mapping[l + m], temp_mapping[l], 0, amount)
         IN  splitted_pair_loop(m2, temp_mapping, temp_weight, temp_size, l, m + 1, coef)

\* for l in range(temp_size)
RECURSIVE splitted_entry_loop(_, _, _, _, _, _)
splitted_entry_loop(regularization_matrix, temp_mapping, temp_weight, temp_size, l, coef) ==
    IF l >= temp_size THEN regularization_matrix
    ELSE splitted_entry_loop(
             splitted_pair_loop(regularization_matrix, temp_mapping, temp_weight,
                                temp_size, l, 0, coef),
             temp_mapping, temp_weight, temp_size, l + 1, coef)

\* for j in range(4): k = i * 4 + j
RECURSIVE splitted_cross_loop(_, _, _, _, _)
splitted_cross_loop(regularization_matrix, arrays, i, j, coef) ==
    IF j >= 4 THEN regularization_matrix
    ELSE splitted_cross_loop(
             splitted_entry_loop(regularization_matrix,
                                 arrays.splitted_mappings[i * 4 + j],
                                 arrays.splitted_weights[i * 4 + j],
                                 arrays.splitted_sizes[i * 4 + j], 0, coef),
             arrays, i, j + 1, coef)

\* for i in range(pixels): regularization_matrix[i, i] += 2e-8, then the cross points.
RECURSIVE splitted_pixel_loop(_, _, _, _, _)
splitted_pixel_loop(regularization_matrix, arrays, pixels, i, coef) ==
    IF i >= pixels THEN regularization_matrix
    ELSE splitted_pixel_loop(
             splitted_cross_loop(AddAt(regularization_matrix, i, i, 2, 0), arrays, i, 0, coef),
             arrays, pixels, i + 1, coef)

\* The matrix returned with its diagonal as accumulated.
diagonal_kept(regularization_matrix, pixels) ==
    [i \in 0..(pixels - 1) |-> [j \in 0..(pixels - 1) |->
        RegValue(FInt(regularization_matrix[i][j].floor),
                 FInt(regularization_matrix[i][j].coef))]]

\* for i in range(pixels): regularization_matrix[i, i] /= 2.0
diagonal_halved(regularization_matrix, pixels) ==
    [i \in 0..(pixels - 1) |-> [j \in 0..(pixels - 1) |->
        IF i = j
        THEN RegValue(Frac(regularization_matrix[i][j].floor, 2),
                      Frac(regularization_matrix[i][j].coef, 2))
        ELSE RegValue(FInt(regularization_matrix[i][j].floor),
                      FInt(regularization_matrix[i][j].coef))]]

constant_pixel_splitted_regularization_matrix_from(coefficient, arrays) ==
    LET pixels == Cardinality(DOMAIN arrays.splitted_mappings) \div 4
    IN  diagonal_halved(
            splitted_pixel_loop(np_zeros(pixels), arrays, pixels, 0, Square(coefficient)),
            pixels)

\* Splitted arrays of weights of both signs; no count exceeds the slots.
SplittedArrays(slots, entries, sizes) ==
    [SplitArrays(slots, entries, sizes) EXCEPT
        !.splitted_weights = [i \in CrossPoints |-> [j \in 0..(slots - 1) |->
                                 IF i % 2 = 1 THEN -(j + 1) ELSE j + 1]]]

PendingSplittedCall ==
    \E slots \in 1..MaxSlots :
    \E entries \in [0..(SplitRows - 1) -> [0..(slots - 1) -> {0, 1}]] :
    \E sizes \in [0..(SplitRows - 1) -> 0..slots] :
    \E c \in Coefficients \ {0} :
        call = [fn |-> "constant_pixel_splitted_regularization_matrix_from",
                coefficient |-> c,
                arrays |-> SplittedArrays(slots, entries, sizes)]

InitSplitted ==
    /\ InversionIdle
    /\ PendingSplittedCall
    /\ result = NoOutcome

ConstantPixelSplittedRegularizationMatrixFrom ==
    /\ call.fn = "constant_pixel_splitted_regularization_matrix_from"
    /\ result.kind = "none"
    /\ result' = Value(constant_pixel_splitted_regularization_matrix_from(
                          call.coefficient, call.arrays))
    /\ UNCHANGED <<call, invVars>>

NextSplitted == ConstantPixelSplittedRegularizationMatrixFrom

SpecSplitted == InitSplitted /\ [][NextSplitted]_vars

----------------------------------------------------------------------------
(* mappers: the mapping table of a mapper (PixForSub), its weights, and    *)
(* the mapping matrix built from them (specification SpecMapper).          *)
(* The masked data has the image pixels DataPixels, each split into        *)
(* sub_size x sub_size sub-pixels; the pixelization has the pixels         *)
(* SourcePixels. A Voronoi mapper pairs every sub-pixel with its nearest   *)
(* pixel; a Delaunay mapper pairs it with the three corners of the         *)
(* triangle it lies in, weighted by the areas of the three sub-triangles.  *)

\* The first FreeSubPixels sub-pixels lie anywhere; the others lie on
\* pixel 0 (Voronoi) or at the centre of the triangle (Delaunay).
FreeSubPixels == 2

DataPixels == 0..1
SourcePixels == 0..2
SubSizes == {1, 2}
Areas == 0..2

SubPixels(sub_size) == 0..(Cardinality(DataPixels) * sub_size * sub_size - 1)

\* mask.slim_index_for_sub_slim_index
slim_index_for_sub_slim_index(sub_size) ==
    [s \in SubPixels(sub_size) |-> s \div (sub_size * sub_size)]

\* mask.sub_fraction
sub_fraction(sub_size) == Frac(1, sub_size * sub_size)

PixForSub(mappings, sizes) == [mappings |-> mappings, sizes |-> sizes]

\* pix_indexes_for_sub_slim_index of the two mappers.
pix_indexes_for_sub_slim_index(mapper, sub_size, geometry) ==
    IF mapper = "voronoi"
    THEN PixForSub([s \in SubPixels(sub_size) |-> [k \in 0..0 |-> geometry[s]]],
                   [s \in SubPixels(sub_size) |-> 1])
    ELSE PixForSub([s \in SubPixels(sub_size) |-> [k \in 0..2 |-> k]],
                   [s \in SubPixels(sub_size) |-> 3])

\* The sub-triangle areas left as they are, not divided by their sum.
pixel_weights_delaunay_unnormalised_from(areas) == [k \in 0..2 |-> FInt(areas[k])]

\* Barycentric weights of a point in a triangle: each sub-triangle area
\* over the area of the triangle.
pixel_weights_delaunay_from(areas) ==
    [k \in 0..2 |-> Frac(areas[k], areas[0] + areas[1] + areas[2])]

pix_weights_for_sub_slim_index(mapper, sub_size, geometry) ==
    IF mapper = "voronoi"
    THEN [s \in SubPixels(sub_size) |-> [k \in 0..0 |-> FInt(1)]]
    ELSE [s \in SubPixels(sub_size) |-> pixel_weights_delaunay_from(geometry[s])]

\* mapper_util.mapping_matrix_from: every entry k < size of sub-pixel s adds
\* sub_fraction * weight to the matrix at (image pixel of s, pixel of the entry).
mapping_matrix_from(pix_weights, pixels, total_mask_pixels, slim_index, pix_indexes, pix_sizes, fraction) ==
    [i \in 0..(total_mask_pixels - 1) |-> [p \in 0..(pixels - 1) |->
        FSum([s1 \in 1..Cardinality(DOMAIN slim_index) |->
            FSum([k1 \in 1..pix_sizes[s1 - 1] |->
                IF slim_index[s1 - 1] = i /\ pix_indexes[s1 - 1][k1 - 1] = p
                THEN FMul(fraction, pix_weights[s1 - 1][k1 - 1])
                ELSE FInt(0)])])]]

\* Where the sub-pixels of a mapper lie: the nearest pixel of each, or the
\* three sub-triangle areas of each (not all zero: it lies in the triangle).
Positions(mapper) ==
    IF mapper = "voronoi" THEN SourcePixels
    ELSE {a \in [0..2 -> Areas] : a[0] + a[1] + a[2] > 0}

Geometry(mapper, sub_size, free) ==
    [s \in SubPixels(sub_size) |->
        IF s < FreeSubPixels THEN free[s]
        ELSE IF mapper = "voronoi" THEN 0 ELSE [k \in 0..2 |-> 1]]

PendingMapper ==
    \E mapper \in {"voronoi", "delaunay"} : \E sub_size \in SubSizes :
    \E free \in [0..(FreeSubPixels - 1) -> Positions(mapper)] :
        call = [fn |-> "mapping_matrix",
                mapper |-> mapper,
                sub_size |-> sub_size,
                geometry |-> Geometry(mapper, sub_size, free),
                pix_weights_for_sub_slim_index |-> None]

\* sub_slim_indexes_for_pix_index: the lists of all pixels, filled in the
\* order of the sub-pixels. A negative list index counts from the end.

\* The loop over the whole row, padding included.
RECURSIVE sub_slim_entry_loop_over_row(_, _, _, _, _)
sub_slim_entry_loop_over_row(lists, pix_index, size, slim_index, k) ==
    IF k >= Cardinality(DOMAIN pix_index) THEN lists
    ELSE sub_slim_entry_loop_over_row(
             [lists EXCEPT ![PyIndex(pix_index[k], Cardinality(DOMAIN lists))] =
                               Append(@, slim_index)],
             pix_index, size, slim_index, k + 1)

\* for k in range(sizes[slim_index]):
\*     sub_slim_indexes_for_pix_index[pix_index[k]].append(slim_index)
RECURSIVE sub_slim_entry_loop(_, _, _, _, _)
sub_slim_entry_loop(lists, pix_index, size, slim_index, k) ==
    IF k >= size THEN lists
    ELSE sub_slim_entry_loop(
             [lists EXCEPT ![PyIndex(pix_index[k], Cardinality(DOMAIN lists))] =
                               Append(@, slim_index)],
             pix_index, size, slim_index, k + 1)

\* for slim_index, pix_index in enumerate(pix_indexes_for_sub_slim_index)
RECURSIVE sub_slim_row_loop(_, _, _, _)
sub_slim_row_loop(lists, mappings, sizes, slim_index) ==
    IF slim_index >= Cardinality(DOMAIN mappings) THEN lists
    ELSE sub_slim_row_loop(
             sub_slim_entry_loop(lists, mappings[slim_index], sizes[slim_index], slim_index, 0),
             mappings, sizes, slim_index + 1)

sub_slim_indexes_for_pix_index(pixels, mappings, sizes) ==
    sub_slim_row_loop([p \in 0..(pixels - 1) |-> <<>>], mappings, sizes, 0)

\* Mapping tables of 1..TableSubPixels sub-pixels with two entries a row, the
\* first 0, 1 or 2 of them pixels and the others the padding -1.
TableSubPixels == 3

TableRows ==
    {[k \in 0..1 |-> IF k < n THEN e[k] ELSE -1] : n \in 0..2, e \in [0..1 -> SourcePixels]}

PendingTable ==
    \E n \in 1..TableSubPixels : \E mappings \in [0..(n - 1) -> TableRows] :
        call = [fn |-> "sub_slim_indexes_for_pix_index",
                pixels |-> Cardinality(SourcePixels),
                pix_indexes_for_sub_slim_index |->
                    PixForSub(mappings,
                              [s \in 0..(n - 1) |->
                                  Cardinality({k \in 0..1 : mappings[s][k] # -1})])]

InitMapper ==
    /\ InversionIdle
    /\ PendingMapper \/ PendingTable
    /\ result = NoOutcome

\* The cached weights of the mapper in the call, computed when not stored.
MapperWeights ==
    IF call.pix_weights_for_sub_slim_index.set
    THEN call.pix_weights_for_sub_slim_index.val
    ELSE pix_weights_for_sub_slim_index(call.mapper, call.sub_size, call.geometry)

PixWeightsForSubSlimIndex ==
    /\ call.fn = "mapping_matrix"
    /\ ~call.pix_weights_for_sub_slim_index.set
    /\ call' = [call EXCEPT !.pix_weights_for_sub_slim_index = Some(MapperWeights)]
    /\ UNCHANGED <<result, invVars>>

MappingMatrixAccess ==
    /\ call.fn = "mapping_matrix"
    /\ result.kind = "none"
    /\ call' = [call EXCEPT !.pix_weights_for_sub_slim_index = Some(MapperWeights)]
    /\ result' = Value(mapping_matrix_from(
                          MapperWeights,
                          Cardinality(SourcePixels),
                          Cardinality(DataPixels),
                          slim_index_for_sub_slim_index(call.sub_size),
                          pix_indexes_for_sub_slim_index(call.mapper, call.sub_size,
                                                         call.geometry).mappings,
                          pix_indexes_for_sub_slim_index(call.mapper, call.sub_size,
                                                         call.geometry).sizes,
                          sub_fraction(call.sub_size)))
    /\ UNCHANGED invVars

SubSlimIndexesForPixIndex ==
    /\ call.fn = "sub_slim_indexes_for_pix_index"
    /\ result.kind = "none"
    /\ result' = Value(sub_slim_indexes_for_pix_index(
                          call.pixels,
                          call.pix_indexes_for_sub_slim_index.mappings,
                          call.pix_indexes_for_sub_slim_index.sizes))
    /\ UNCHANGED <<call, invVars>>

NextMapper ==
    \/ PixWeightsForSubSlimIndex
    \/ MappingMatrixAccess
    \/ SubSlimIndexesForPixIndex

SpecMapper == InitMapper /\ [][NextMapper]_vars

----------------------------------------------------------------------------
(* Preloads: the set_* methods, which compare two fits and keep what both  *)
(* share (specification SpecSetPreloads). A compared quantity is one of    *)
(* PreloadValues; Stale is what a field held before the call.              *)

PreloadValues == {1, 2}
Stale == 9

PreloadFields ==
    {"mapper", "relocated_grid", "blurred_mapping_matrix", "curvature_matrix_preload",
     "curvature_matrix_counts", "regularization_matrix", "log_det_regularization_matrix_term"}

\* An inversion of a fit, as far as the preloads look at it.
FitInversion(mm, grid, bmm, term) ==
    [mapping_matrix |-> mm,
     source_grid_slim |-> grid,
     blurred_mapping_matrix |-> bmm,
     curvature_matrix_preload |-> 10 + bmm,
     curvature_matrix_counts |-> 20 + bmm,
     regularization_matrix |-> "eye",
     log_det_regularization_matrix_term |-> term]

\* fit.inversion: None, or an inversion.
FitInversions ==
    {None} \cup {Some(FitInversion(mm, grid, bmm, term)) :
                    mm \in PreloadValues, grid \in PreloadValues,
                    bmm \in PreloadValues, term \in PreloadValues}

BothFitsInvert(fit_0, fit_1) == fit_0.inversion.set /\ fit_1.inversion.set

\* set_mapper with self.mapper left as it was.
set_mapper_without_reset(self, fit_0, fit_1) ==
    IF ~BothFitsInvert(fit_0, fit_1) THEN self
    ELSE IF fit_0.inversion.val.mapping_matrix = fit_1.inversion.val.mapping_matrix
    THEN [self EXCEPT !.mapper = Some([mapping_matrix |-> fit_0.inversion.val.mapping_matrix])]
    ELSE self

set_mapper(self, fit_0, fit_1) ==
    LET reset == [self EXCEPT !.mapper = None]
    IN  IF ~BothFitsInvert(fit_0, fit_1) THEN reset
        ELSE IF fit_0.inversion.val.mapping_matrix = fit_1.inversion.val.mapping_matrix
        THEN [reset EXCEPT !.mapper =
                 Some([mapping_matrix |-> fit_0.inversion.val.mapping_matrix])]
        ELSE reset

set_relocated_grid(self, fit_0, fit_1) ==
    LET reset == [self EXCEPT !.relocated_grid = None]
    IN  IF ~BothFitsInvert(fit_0, fit_1) THEN reset
        ELSE IF fit_0.inversion.val.source_grid_slim = fit_1.inversion.val.source_grid_slim
        THEN [reset EXCEPT !.relocated_grid = Some(fit_0.inversion.val.source_grid_slim)]
        ELSE reset

set_inversion(self, fit_0, fit_1) ==
    LET reset == [self EXCEPT !.blurred_mapping_matrix = None,
                              !.curvature_matrix_preload = None,
                              !.curvature_matrix_counts = None]
    IN  IF ~BothFitsInvert(fit_0, fit_1) THEN reset
        ELSE IF fit_0.inversion.val.blurred_mapping_matrix
                    = fit_1.inversion.val.blurred_mapping_matrix
        THEN [reset EXCEPT
                 !.blurred_mapping_matrix = Some(fit_0.inversion.val.blurred_mapping_matrix),
                 !.curvature_matrix_preload = Some(fit_0.inversion.val.curvature_matrix_preload),
                 !.curvature_matrix_counts = Some(fit_0.inversion.val.curvature_matrix_counts)]
        ELSE reset

set_regularization_matrix_and_term(self, fit_0, fit_1) ==
    LET reset == [self EXCEPT !.regularization_matrix = None,
                              !.log_det_regularization_matrix_term = None]
    IN  IF ~BothFitsInvert(fit_0, fit_1) THEN reset
        ELSE IF fit_0.inversion.val.log_det_regularization_matrix_term
                    = fit_1.inversion.val.log_det_regularization_matrix_term
        THEN [reset EXCEPT
                 !.regularization_matrix = Some(fit_0.inversion.val.regularization_matrix),
                 !.log_det_regularization_matrix_term =
                     Some(fit_0.inversion.val.log_det_regularization_matrix_term)]
        ELSE reset

SetMethods ==
    {"set_mapper", "set_relocated_grid", "set_inversion", "set_regularization_matrix_and_term"}

\* Preloads(...) with every field None or every field holding something,
\* and a pending call of one method with two fits.
InitSetPreloads ==
    /\ mapping = [i \in Idx |-> 0]
    /\ F0 = CurvatureOf(mapping)
    /\ D = mapping
    /\ H = [i \in Idx |-> [j \in Idx |-> 0]]
    /\ leqCurv = F0
    /\ cache = [n \in CachedNames |-> None]
    /\ last = [acc |-> "none", hit |-> FALSE, ran |-> <<>>, out |-> NoOutcome]
    /\ everRan = {}
    /\ firstReconstruction = None
    /\ preloads \in {[f \in PreloadFields |-> None], [f \in PreloadFields |-> Some(Stale)]}
    /\ \E fn \in SetMethods : \E inversion_0, inversion_1 \in FitInversions :
           call = [fn |-> fn,
                   fit_0 |-> [inversion |-> inversion_0],
                   fit_1 |-> [inversion |-> inversion_1],
                   before |-> preloads]
    /\ result = NoOutcome

SetPreload(fn, after) ==
    /\ call.fn = fn
    /\ result.kind = "none"
    /\ preloads' = after
    /\ result' = Value("None")
    /\ UNCHANGED <<call, mapping, F0, H, D, leqCurv, cache, last, everRan, firstReconstruction>>

SetMapper == SetPreload("set_mapper", set_mapper(preloads, call.fit_0, call.fit_1))

SetRelocatedGrid ==
    SetPreload("set_relocated_grid", set_relocated_grid(preloads, call.fit_0, call.fit_1))

SetInversion == SetPreload("set_inversion", set_inversion(preloads, call.fit_0, call.fit_1))

SetRegularizationMatrixAndTerm ==
    SetPreload("set_regularization_matrix_and_term",
               set_regularization_matrix_and_term(preloads, call.fit_0, call.fit_1))

NextSetPreloads ==
    \/ SetMapper
    \/ SetRelocatedGrid
    \/ SetInversion
    \/ SetRegularizationMatrixAndTerm

SpecSetPreloads == InitSetPreloads /\ [][NextSetPreloads]_vars

----------------------------------------------------------------------------
(* The inversion's derived quantities reconstruction_dict and              *)
(* regularization_term (specification SpecInversionTerms). Vectors and     *)
(* matrices are sequences, position p of an array being element p + 1.     *)

\* An inversion fits 1..MaxObjects linear objects jointly.
MaxObjects == 3

ObjectPixels == 1..3
ReconstructionValues == {0, 1}
TermPixels == 1..3
TermValues == {1, 2, 3, 5}

Min(a, b) == IF a < b THEN a ELSE b

\* a[lo:hi], a slice of a numpy array: positions past the end are left out.
PySlice(a, lo, hi) == SubSeq(a, Min(lo, Len(a)) + 1, Min(hi, Len(a)))

\* The loop with every segment cut from the start of the vector.
RECURSIVE reconstruction_dict_loop_from_start(_, _, _, _, _)
reconstruction_dict_loop_from_start(recon, pixels_list, k, index, dict) ==
    IF k > Len(pixels_list) THEN dict
    ELSE reconstruction_dict_loop_from_start(
             recon, pixels_list, k + 1, index,
             Append(dict, PySlice(recon, 0, pixels_list[k])))

\* for linear_obj in linear_obj_list:
\*     reconstruction_dict[linear_obj] = reconstruction[index : index + linear_obj.pixels]
\*     index += linear_obj.pixels
\* The dictionary is the sequence of its values in the order of linear_obj_list.
RECURSIVE reconstruction_dict_loop(_, _, _, _, _)
reconstruction_dict_loop(recon, pixels_list, k, index, dict) ==
    IF k > Len(pixels_list) THEN dict
    ELSE reconstruction_dict_loop(
             recon, pixels_list, k + 1, index + pixels_list[k],
             Append(dict, PySlice(recon, index, index + pixels_list[k])))

reconstruction_dict(recon, pixels_list) ==
    reconstruction_dict_loop(recon, pixels_list, 1, 0, <<>>)

\* np.matmul(matrix, vector), np.matmul(vector.T, vector)
np_matmul_matrix_vector(m, v) == [i \in 1..Len(m) |-> ISum([j \in 1..Len(v) |-> m[i][j] * v[j]])]

np_matmul_vector_vector(u, v) == ISum([i \in 1..Len(u) |-> u[i] * v[i]])

\* The product taken with the diagonal of the matrix alone.
regularization_term_diagonal(recon, regularization_matrix) ==
    ISum([i \in 1..Len(recon) |->
             recon[i] * regularization_matrix[i][i] * recon[i]])

\* np.matmul(reconstruction.T, np.matmul(regularization_matrix, reconstruction))
regularization_term(recon, regularization_matrix) ==
    np_matmul_vector_vector(recon,
                            np_matmul_matrix_vector(regularization_matrix, recon))

\* A matrix with the given diagonal and first off-diagonals, zero elsewhere.
Banded(n, diag, upper, lower) ==
    [i \in 1..n |-> [j \in 1..n |->
        IF j = i THEN diag[i]
        ELSE IF j = i + 1 THEN upper[i]
        ELSE IF i = j + 1 THEN lower[j]
        ELSE 0]]

PendingInversionTerm ==
    \/ \E n \in 1..MaxObjects : \E pixels_list \in [1..n -> ObjectPixels] :
       \E recon \in [1..ISum(pixels_list) -> ReconstructionValues] :
           call = [fn |-> "reconstruction_dict",
                   pixels_list |-> pixels_list,
                   reconstruction |-> recon]
    \/ \E n \in 1..MaxObjects : \E pixels_list \in [1..n -> ObjectPixels] :
           call = [fn |-> "reconstruction_dict",
                   pixels_list |-> pixels_list,
                   reconstruction |-> [p \in 1..ISum(pixels_list) |-> 10 + p]]
    \/ \E n \in TermPixels : \E recon \in [1..n -> TermValues] :
       \E diag \in [1..n -> {1, 2}] :
       \E upper \in [1..(n - 1) -> {-1, 0}] : \E lower \in [1..(n - 1) -> {-1, 0}] :
           call = [fn |-> "regularization_term",
                   reconstruction |-> recon,
                   regularization_matrix |-> Banded(n, diag, upper, lower)]

InitInversionTerms ==
    /\ InversionIdle
    /\ PendingInversionTerm
    /\ result = NoOutcome

ReconstructionDict ==
    /\ call.fn = "reconstruction_dict"
    /\ result.kind = "none"
    /\ result' = Value(reconstruction_dict(call.reconstruction, call.pixels_list))
    /\ UNCHANGED <<call, invVars>>

RegularizationTerm ==
    /\ call.fn = "regularization_term"
    /\ result.kind = "none"
    /\ result' = Value(regularization_term(call.reconstruction, call.regularization_matrix))
    /\ UNCHANGED <<call, invVars>>

NextInversionTerms ==
    \/ ReconstructionDict
    \/ RegularizationTerm

SpecInversionTerms == InitInversionTerms /\ [][NextInversionTerms]_vars

----------------------------------------------------------------------------
(* structures/triangles: containment of a point in one Triangle and in the *)
(* triangles of an ArrayTriangles (specification SpecTriangles). A vertex  *)
(* or a point is a pair <<c0, c1>> of its components 0 and 1, a triangle a *)
(* sequence of three vertices, an ArrayTriangles [indices, vertices] with  *)
(* vertices numbered from 0.                                               *)

TriangleSide == 2
MaxTriangles == 2

Coordinates == 0..TriangleSide

\* 0 <= p <= 1 for a fraction p.
InUnit(p) == 0 <= p[1] /\ p[1] <= p[2]

\* The barycentric test both implementations share, on the coordinates each
\* of them has read.
barycentric_inside(y1, x1, y2, x2, y3, x3, y, x) ==
    LET denominator == (y2 - y3) * (x1 - x3) + (x3 - x2) * (y1 - y3)
        a == Frac((y2 - y3) * (x - x3) + (x3 - x2) * (y - y3), denominator)
        b == Frac((y3 - y1) * (x - x3) + (x1 - x3) * (y - y3), denominator)
        c == FSub(FSub(FInt(1), a), b)
    IN  InUnit(a) /\ InUnit(b) /\ InUnit(c)

\* Triangle.contains: y1, x1 = self.points[0] and so on, y, x = point.
contains(points, point) ==
    barycentric_inside(points[1][1], points[1][2],
                       points[2][1], points[2][2],
                       points[3][1], points[3][2],
                       point[1], point[2])

\* ArrayTriangles.triangles: self.vertices[self.indices].
triangles(self) ==
    [t \in 1..Len(self.indices) |->
        [k \in 1..3 |-> self.vertices[self.indices[t][k] + 1]]]

\* One entry of the mask inside: y1, x1 = triangles[:, 0, 1], triangles[:, 0, 0]
\* and so on, y, x = point.
array_inside(triangle, point) ==
    barycentric_inside(triangle[1][2], triangle[1][1],
                       triangle[2][2], triangle[2][1],
                       triangle[3][2], triangle[3][1],
                       point[1], point[2])

LexLess(u, v) == u[1] < v[1] \/ (u[1] = v[1] /\ u[2] < v[2])

\* np.unique(rows, axis=0, return_inverse=True): the distinct rows in
\* lexicographic order and, for each row, its position among them.
np_unique(rows) ==
    LET distinct == {rows[k] : k \in 1..Len(rows)}
        rank(v) == Cardinality({u \in distinct : LexLess(u, v)})
    IN  [unique |-> [k \in 1..Cardinality(distinct) |->
                        CHOOSE v \in distinct : rank(v) = k - 1],
         inverse |-> [k \in 1..Len(rows) |-> rank(rows[k])]]

\* containing_triangles.reshape(-1, 2)
RECURSIVE reshape_vertices(_)
reshape_vertices(containing_triangles) ==
    IF Len(containing_triangles) = 0 THEN <<>>
    ELSE Head(containing_triangles) \o reshape_vertices(Tail(containing_triangles))

\* ArrayTriangles.containing
containing(self, point) ==
    LET containing_triangles == SelectSeq(triangles(self),
                                          LAMBDA triangle : array_inside(triangle, point))
        u == np_unique(reshape_vertices(containing_triangles))
        new_indices == [t \in 1..Len(containing_triangles) |->
                           [k \in 1..3 |-> u.inverse[3 * (t - 1) + k]]]
    IN  [indices |-> new_indices, vertices |-> u.unique]

GridPoints == Coordinates \X Coordinates

\* Three vertices that are not on one line.
NonDegenerate(triangle) ==
    (triangle[2][1] - triangle[1][1]) * (triangle[3][2] - triangle[1][2])
        # (triangle[3][1] - triangle[1][1]) * (triangle[2][2] - triangle[1][2])

\* A strip of n triangles on n + 2 vertices: triangle t has the vertices
\* t, t + 1 and t + 2.
Strip(vertices) ==
    [indices |-> [t \in 1..(Len(vertices) - 2) |-> <<t - 1, t, t + 1>>],
     vertices |-> vertices]

PendingTriangleCall ==
    \/ \E points \in [1..3 -> GridPoints] : \E point \in GridPoints :
           /\ NonDegenerate(points)
           /\ call = [fn |-> "Triangle.contains", points |-> points, point |-> point]
    \/ \E n \in 1..MaxTriangles : \E vertices \in [1..(n + 2) -> GridPoints] :
       \E point \in GridPoints :
           /\ \A t \in 1..n : NonDegenerate(triangles(Strip(vertices))[t])
           /\ call = [fn |-> "ArrayTriangles.containing",
                      self |-> Strip(vertices), point |-> point]

InitTriangles ==
    /\ InversionIdle
    /\ PendingTriangleCall
    /\ result = NoOutcome

Contains ==
    /\ call.fn = "Triangle.contains"
    /\ result.kind = "none"
    /\ result' = Value(contains(call.points, call.point))
    /\ UNCHANGED <<call, invVars>>

Containing ==
    /\ call.fn = "ArrayTriangles.containing"
    /\ result.kind = "none"
    /\ result' = Value(containing(call.self, call.point))
    /\ UNCHANGED <<call, invVars>>

NextTriangles == Contains \/ Containing

SpecTriangles == InitTriangles /\ [][NextTriangles]_vars

----------------------------------------------------------------------------
(* Properties of the accessors (specification Spec) *)

CurvatureReg == MatAdd(F0, H)

AllOnes == [i \in Idx |-> [j \in Idx |-> 1]]

CholeskyGuarded == {"curvature_reg_matrix_cholesky", "reconstruction"}

\* C1: when curvature_reg_matrix is not positive definite, an access of
\* curvature_reg_matrix_cholesky or of reconstruction raises
\* InversionException (never the LinAlgError itself), returns nothing and
\* stores no factor and no reconstruction.
C1_NotPosDefRaisesInversionException ==
    ~IsPosDef(CurvatureReg) =>
        /\ last.acc \in CholeskyGuarded =>
               last.out.kind = "raise" /\ last.out.exc = "InversionException"
        /\ ~cache["curvature_reg_matrix_cholesky"].set
        /\ ~cache["reconstruction"].set
        /\ ~firstReconstruction.set

\* The all-ones (singular) matrix, factorized through reconstruction.
C1_Witness ==
    /\ CurvatureReg = AllOnes
    /\ last.acc = "reconstruction"
    /\ last.out.kind = "raise"
    /\ "np.linalg.cholesky" \in Range(last.ran)

LogDetReg == "log_det_regularization_matrix_term"

\* C2: with no preload, a computing access of
\* log_det_regularization_matrix_term runs the sparse LU first; when the LU
\* succeeds (H not singular) nothing else runs and a value is returned; when
\* it fails the Cholesky of H runs next; only InversionException is ever
\* raised, and only after both have run and failed.
C2_LuThenCholeskyThenInversionException ==
    (last.acc = LogDetReg /\ ~preloads.log_det_regularization_matrix_term.set) =>
        /\ last.hit => last.ran = <<>> /\ last.out.kind = "value"
        /\ ~last.hit =>
               /\ Len(last.ran) >= 1 /\ last.ran[1] = "splu"
               /\ Det(H) # 0 => last.ran = <<"splu">> /\ last.out.kind = "value"
               /\ Det(H) = 0 => last.ran = <<"splu", "np.linalg.cholesky(H)">>
        /\ last.out.kind = "raise" =>
               /\ last.out.exc = "InversionException"
               /\ last.ran = <<"splu", "np.linalg.cholesky(H)">>
               /\ Det(H) = 0
               /\ ~IsPosDef(H)

\* Both routes ran and failed.
C2_Witness ==
    /\ last.acc = LogDetReg
    /\ last.ran = <<"splu", "np.linalg.cholesky(H)">>
    /\ last.out.kind = "raise"

CholeskyRaises == np_linalg_cholesky(CurvatureReg).kind = "raise"

\* C3 as stated: when the factorization of curvature_reg_matrix raises, none
\* of reconstruction, log_det_curvature_reg_matrix_term,
\* errors_with_covariance and errors returns a value.
C3_NoAccessorReturns ==
    (CholeskyRaises /\ last.acc \in {"reconstruction", "log_det_curvature_reg_matrix_term",
                                     "errors_with_covariance", "errors"}) =>
        last.out.kind = "raise"

\* C3 amended: when the factorization raises, reconstruction and
\* log_det_curvature_reg_matrix_term raise InversionException in whatever
\* order they are accessed; errors_with_covariance and errors fail (with
\* LinAlgError) exactly when curvature_reg_matrix is singular and otherwise
\* return the inverse and its diagonal.
C3_CholeskyAccessorsFailErrorsFollowInverse ==
    CholeskyRaises =>
        /\ last.acc \in {"reconstruction", "log_det_curvature_reg_matrix_term"} =>
               last.out.kind = "raise" /\ last.out.exc = "InversionException"
        /\ last.acc \in {"errors_with_covariance", "errors"} =>
               /\ Det(CurvatureReg) = 0 =>
                      last.out.kind = "raise" /\ last.out.exc = "LinAlgError"
               /\ Det(CurvatureReg) # 0 => last.out.kind = "value"

\* errors returns for a matrix that is invertible but not positive definite.
C3_Witness ==
    /\ CholeskyRaises
    /\ last.acc = "errors"
    /\ last.out.kind = "value"

\* C4: once reconstruction has returned, every later access of it returns
\* the value of that first access and runs neither a solve nor a
\* factorization.
C4_ReconstructionIdempotent ==
    [][(firstReconstruction.set /\ last'.acc = "reconstruction") =>
           /\ last'.out = Value(firstReconstruction.val)
           /\ "reconstruction_from" \notin Range(last'.ran)
           /\ "np.linalg.cholesky" \notin Range(last'.ran)]_vars

\* A second access of reconstruction, after one that returned.
C4_Witness ==
    /\ firstReconstruction.set
    /\ last.acc = "reconstruction"
    /\ last.hit
    /\ last.out.kind = "value"

\* The computation an accessor declared with cached_property runs itself.
OwnComputation(n) ==
    CASE n = "data_vector" -> "leq.data_vector_from"
      [] n = "curvature_reg_matrix" -> "np.add"
      [] n = "curvature_reg_matrix_cholesky" -> "np.linalg.cholesky"
      [] n = "reconstruction" -> "reconstruction_from"
      [] n = "log_det_curvature_reg_matrix_term" -> "sum_log_diag"
      [] n = "log_det_regularization_matrix_term" -> "splu"

\* C5 as stated: over any sequence of accesses the computation behind each
\* accessor (curvature_matrix, errors and errors_with_covariance included)
\* runs at most once.
C5_EveryComputationRunsAtMostOnce ==
    [][\A c \in Range(last'.ran) : c \notin everRan]_vars

\* C5 amended: the accessors declared with cached_property are lazy and
\* memoized once they have returned: a value is stored only by the access
\* that computes it, every access that returns leaves its value stored, the
\* computation never runs again after that, and later accesses return the
\* stored value without computing anything.
\* (curvature_matrix, errors_with_covariance and errors are plain properties
\* and a computation that raised stores nothing.)
C5_CachedAccessorsMemoized ==
    [][\A n \in CachedNames :
          /\ cache[n].set =>
                 /\ OwnComputation(n) \notin Range(last'.ran)
                 /\ cache'[n] = cache[n]
                 /\ last'.acc = n =>
                        last'.out = Value(cache[n].val) /\ last'.ran = <<>>
          /\ (~cache[n].set /\ cache'[n].set) =>
                 OwnComputation(n) \in Range(last'.ran)
          /\ (last'.acc = n /\ last'.out.kind = "value") =>
                 cache'[n] = Some(last'.out.val)]_vars

\* A stored factor, read again without a factorization.
C5_Witness ==
    /\ last.acc = "curvature_reg_matrix_cholesky"
    /\ last.hit
    /\ last.ran = <<>>
    /\ "np.linalg.cholesky" \in everRan

\* C6: curvature_matrix always returns the un-regularized F the instance was
\* built with, also after curvature_reg_matrix has been formed, and the
\* stored curvature_reg_matrix is F + H element-wise.
C6_CurvatureMatrixNotOverwritten ==
    /\ last.acc = "curvature_matrix" => last.out = Value(F0)
    /\ leqCurv = F0
    /\ cache["curvature_reg_matrix"].set =>
           \A i, j \in Idx : cache["curvature_reg_matrix"].val[i][j] = F0[i][j] + H[i][j]

\* curvature_matrix read after a curvature_reg_matrix that differs from F.
C6_Witness ==
    /\ last.acc = "curvature_matrix"
    /\ cache["curvature_reg_matrix"].set
    /\ cache["curvature_reg_matrix"].val # F0

CholeskyUsers ==
    {"curvature_reg_matrix_cholesky", "reconstruction", "log_det_curvature_reg_matrix_term"}

\* The positions of computation c in the sequence of computations s.
PositionsOf(s, c) == {k \in 1..Len(s) : s[k] = c}

\* C21: on an inversion whose curvature_reg_matrix is positive definite, the
\* first access among curvature_reg_matrix_cholesky, reconstruction and
\* log_det_curvature_reg_matrix_term runs the Cholesky factorization once,
\* after curvature_reg_matrix has been formed, and stores the factor; no
\* later access (log_det_curvature_reg_matrix_term included) runs it again.
C21_CholeskyFactorizedExactlyOnce ==
    [][(IsPosDef(CurvatureReg) /\ last'.acc \in CholeskyUsers) =>
           /\ cache'["curvature_reg_matrix"].set
           /\ cache'["curvature_reg_matrix_cholesky"].set
           /\ IF "np.linalg.cholesky" \in everRan
              THEN PositionsOf(last'.ran, "np.linalg.cholesky") = {}
              ELSE /\ Cardinality(PositionsOf(last'.ran, "np.linalg.cholesky")) = 1
                   /\ \/ cache["curvature_reg_matrix"].set
                      \/ \E k \in PositionsOf(last'.ran, "np.add") :
                             \A c \in PositionsOf(last'.ran, "np.linalg.cholesky") : k < c]_vars

\* log_det_curvature_reg_matrix_term computed from the factor an earlier
\* access stored.
C21_Witness ==
    /\ IsPosDef(CurvatureReg)
    /\ last.acc = "log_det_curvature_reg_matrix_term"
    /\ ~last.hit
    /\ last.ran = <<"sum_log_diag">>
    /\ "np.linalg.cholesky" \in everRan
    /\ cache["reconstruction"].set

\* C16: with a log_det_regularization_matrix_term in the preloads, an
\* access of log_det_regularization_matrix_term returns exactly that value,
\* neither splu nor the Cholesky factorization of H is ever run, and the
\* preloads stay as they were.
C16_PreloadedTermReturned ==
    preloads.log_det_regularization_matrix_term.set =>
        /\ last.acc = LogDetReg =>
               /\ last.out = Value(preloads.log_det_regularization_matrix_term.val)
               /\ Range(last.ran) \cap {"splu", "np.linalg.cholesky(H)"} = {}
        /\ everRan \cap {"splu", "np.linalg.cholesky(H)"} = {}
        /\ preloads = [log_det_regularization_matrix_term |-> Some(PreloadedTerm)]

\* The first access, on a regularization matrix whose LU factorization
\* would have failed.
C16_Witness ==
    /\ preloads.log_det_regularization_matrix_term.set
    /\ last.acc = LogDetReg
    /\ ~last.hit
    /\ last.out = Value(PreloadedTerm)
    /\ splu(H).kind = "raise"
    /\ cache[LogDetReg] = Some(PreloadedTerm)

----------------------------------------------------------------------------
(* Properties of the neighbor kernels (specification SpecNeighbors) *)

VoronoiReturned == call.fn = "voronoi_neighbors_from" /\ result.kind = "value"

RectangularReturned == call.fn = "rectangular_neighbors_from" /\ result.kind = "value"

\* j is among the first sizes[i] entries of row i of the returned table.
Lists(out, i, j) ==
    \E k \in 0..(out.pixel_neighbors_sizes[i] - 1) :
        k \in DOMAIN out.pixel_neighbors[i] /\ out.pixel_neighbors[i][k] = j

\* C8: the neighbor relation voronoi_neighbors_from returns is symmetric,
\* for every ridge list.
C8_VoronoiNeighborsSymmetric ==
    VoronoiReturned =>
        \A i, j \in 0..(call.pixels - 1) :
            Lists(result.val, i, j) <=> Lists(result.val, j, i)

\* Two ridges from pixel 0, the first one to a pixel that has ridges later:
\* the two ends of a ridge are written at different positions of their rows.
C8_Witness ==
    /\ VoronoiReturned
    /\ call.pixels = 3
    /\ call.ridge_points = <<<<0, 1>>, <<0, 2>>, <<2, 1>>>>
    /\ Lists(result.val, 2, 0) /\ Lists(result.val, 0, 2)

Adjacent4(i, rows, cols) ==
    {j \in 0..(rows * cols - 1) :
        \/ (j \div cols) = (i \div cols) /\ Abs((j % cols) - (i % cols)) = 1
        \/ (j % cols) = (i % cols) /\ Abs((j \div cols) - (i \div cols)) = 1}

\* 2 at a corner, 3 elsewhere on the border, 4 inside.
CountByPosition(i, rows, cols) ==
    4 - (IF (i \div cols) \in {0, rows - 1} THEN 1 ELSE 0)
      - (IF (i % cols) \in {0, cols - 1} THEN 1 ELSE 0)

\* C9: for rows >= 2 and cols >= 2, row i of the table
\* rectangular_neighbors_from returns holds exactly the in-grid 4-adjacent
\* pixels of i = row*cols + col in ascending order, then -1 up to 4 entries,
\* and sizes[i] is their number: 2 at corners, 3 on the border, 4 inside.
C9_RectangularNeighborsExact ==
    (RectangularReturned /\ call.shape_native[1] >= 2 /\ call.shape_native[2] >= 2) =>
        LET rows == call.shape_native[1]
            cols == call.shape_native[2]
            out == result.val
        IN  /\ DOMAIN out.pixel_neighbors = 0..(rows * cols - 1)
            /\ \A i \in 0..(rows * cols - 1) :
                 LET adj == Adjacent4(i, rows, cols)
                     n == out.pixel_neighbors_sizes[i]
                     row == out.pixel_neighbors[i]
                 IN  /\ DOMAIN row = 0..3
                     /\ n = Cardinality(adj)
                     /\ n = CountByPosition(i, rows, cols)
                     /\ {row[k] : k \in 0..(n - 1)} = adj
                     /\ \A k \in 0..(n - 2) : row[k] < row[k + 1]
                     /\ \A k \in n..3 : row[k] = -1

\* The 3 x 3 grid of the docstring: a corner, an edge pixel and the centre.
C9_Witness ==
    /\ RectangularReturned
    /\ call.shape_native = <<3, 3>>
    /\ result.val.pixel_neighbors[0] = [k \in 0..3 |-> <<1, 3, -1, -1>>[k + 1]]
    /\ result.val.pixel_neighbors[7] = [k \in 0..3 |-> <<4, 6, 8, -1>>[k + 1]]
    /\ result.val.pixel_neighbors[4] = [k \in 0..3 |-> <<1, 3, 5, 7>>[k + 1]]
    /\ result.val.pixel_neighbors_sizes[4] = 4

\* C29: for every shape_native with rows >= 1 and cols >= 1, single-row,
\* single-column and 1 x 1 grids included, each of the first sizes[i] entries
\* of row i of the table rectangular_neighbors_from returns is a pixel index
\* in [0, rows*cols), differs from i, is 4-adjacent to i in the grid, and the
\* relation is symmetric.
C29_RectangularNeighborsValidForEveryShape ==
    call.fn = "rectangular_neighbors_from" /\ result.kind # "none" =>
        /\ result.kind = "value"
        /\ LET rows == call.shape_native[1]
               cols == call.shape_native[2]
               out == result.val
               Listed(i) == {out.pixel_neighbors[i][k] :
                                k \in 0..(out.pixel_neighbors_sizes[i] - 1)}
           IN  \A i \in 0..(rows * cols - 1) :
                   /\ out.pixel_neighbors_sizes[i] \in 0..4
                   /\ \A j \in Listed(i) :
                          /\ j \in 0..(rows * cols - 1)
                          /\ j # i
                          /\ j \in Adjacent4(i, rows, cols)
                          /\ i \in Listed(j)

HasSelfLoop(ridge_points) ==
    \E r \in 1..Len(ridge_points) : ridge_points[r][1] = ridge_points[r][2]

\* C10: a ridge list with a self-loop makes voronoi_neighbors_from fail, so
\* no returned table lists a pixel as its own neighbor.
C10_SelfLoopsRejected ==
    call.fn = "voronoi_neighbors_from" =>
        /\ (HasSelfLoop(call.ridge_points) /\ result.kind # "none") => result.kind = "raise"
        /\ result.kind = "value" =>
               \A i \in 0..(call.pixels - 1) : ~Lists(result.val, i, i)

\* The other endpoints of the ridges incident to pixel i, in ridge order.
RECURSIVE OtherEnds(_, _)
OtherEnds(ridge_points, i) ==
    IF Len(ridge_points) = 0 THEN <<>>
    ELSE LET pair0 == Head(ridge_points)[1]
             pair1 == Head(ridge_points)[2]
             rest == OtherEnds(Tail(ridge_points), i)
         IN  IF pair0 = i THEN <<pair1>> \o rest
             ELSE IF pair1 = i THEN <<pair0>> \o rest
             ELSE rest

\* C23: for every ridge list, voronoi_neighbors_from returns sizes[i] equal
\* to the number of ridges incident to pixel i, row i holding the other
\* endpoints of those ridges in ridge order in its first sizes[i] positions
\* and -1 in the remaining ones, and rows as wide as the largest size.
C23_VoronoiRowsAreIncidentRidges ==
    VoronoiReturned =>
        \A i \in 0..(call.pixels - 1) :
            LET ends == OtherEnds(call.ridge_points, i)
                n == result.val.pixel_neighbors_sizes[i]
                row == result.val.pixel_neighbors[i]
            IN  /\ n = Len(ends)
                /\ DOMAIN row = 0..(NpMax(result.val.pixel_neighbors_sizes) - 1)
                /\ \A k \in DOMAIN row :
                       row[k] = IF k < n THEN ends[k + 1] ELSE -1

----------------------------------------------------------------------------
(* Properties of the regularization routines (specification                *)
(* SpecRegularization)                                                     *)

TablePixels == 0..(Cardinality(DOMAIN call.pixel_neighbors) - 1)

\* Every counted entry of the table in the call is a pixel index.
WellFormedTable ==
    \A i \in TablePixels : \A k \in 0..(call.pixel_neighbors_sizes[i] - 1) :
        k \in DOMAIN call.pixel_neighbors[i] /\ call.pixel_neighbors[i][k] \in TablePixels

\* How often j is among the counted entries of row i.
CountOf(i, j) ==
    Cardinality({k \in 0..(call.pixel_neighbors_sizes[i] - 1) : call.pixel_neighbors[i][k] = j})

SymmetricTable == WellFormedTable /\ \A i, j \in TablePixels : CountOf(i, j) = CountOf(j, i)

SimpleTable == \A i, j \in TablePixels : CountOf(i, j) <= 1 /\ CountOf(i, i) = 0

ConstantReturned ==
    call.fn = "constant_regularization_matrix_from" /\ result.kind = "value"

\* C11: for a symmetric table without self-loops or repeated entries,
\* constant_regularization_matrix_from returns H with
\* H[i,i] = 1e-8 + (number of neighbors of i) * c^2, H[i,j] = -c^2 when j is
\* a neighbor of i and 0 otherwise, and H[i,j] = H[j,i].
C11_ConstantSchemeEntries ==
    (ConstantReturned /\ SymmetricTable /\ SimpleTable) =>
        \A i, j \in TablePixels :
            /\ result.val[i][j] =
                   IF i = j
                   THEN RegValue(1, call.pixel_neighbors_sizes[i] * Square(call.coefficient))
                   ELSE IF CountOf(i, j) = 1 THEN RegValue(0, -Square(call.coefficient))
                   ELSE RegValue(0, 0)
            /\ result.val[i][j] = result.val[j][i]

\* Three pixels in a chain, coefficient 2.
C11_Witness ==
    /\ ConstantReturned
    /\ call.ridge_points = <<<<0, 1>>, <<1, 2>>>>
    /\ call.coefficient = 2
    /\ result.val[1][1] = RegValue(1, 8)
    /\ result.val[0][1] = RegValue(0, -4)
    /\ result.val[0][2] = RegValue(0, 0)

\* Sum of f over 0..(n - 1), f a function on that range.
SumOver(f) == ISum([k \in 1..Cardinality(DOMAIN f) |-> f[k - 1]])

\* s^T H s as floor * 1e-8 + coef.
QuadraticForm(h, s) ==
    RegValue(SumOver([i \in DOMAIN s |-> SumOver([j \in DOMAIN s |-> s[i] * s[j] * h[i][j].floor])]),
             SumOver([i \in DOMAIN s |-> SumOver([j \in DOMAIN s |-> s[i] * s[j] * h[i][j].coef])]))

\* floor * 1e-8 + coef >= 0, for integers with |floor| < 10^8.
NonNegative(v) == v.coef > 0 \/ (v.coef = 0 /\ v.floor >= 0)

VectorValues == -2..2

\* C12: the constant-scheme H of a symmetric table (repeated entries
\* allowed) is symmetric, every row sums to exactly the 1e-8 floor, the
\* diagonal dominates the off-diagonal magnitudes of its row, and
\* s^T H s >= 0 for every vector s.
C12_ConstantSchemePositiveSemiDefinite ==
    (ConstantReturned /\ SymmetricTable) =>
        /\ \A i, j \in TablePixels : result.val[i][j] = result.val[j][i]
        /\ \A i \in TablePixels :
             /\ SumOver([j \in TablePixels |-> result.val[i][j].floor]) = 1
             /\ SumOver([j \in TablePixels |-> result.val[i][j].coef]) = 0
             /\ result.val[i][i].coef >=
                    SumOver([j \in TablePixels |->
                                IF j = i THEN 0 ELSE Abs(result.val[i][j].coef)])
        /\ \A s \in [TablePixels -> VectorValues] :
             NonNegative(QuadraticForm(result.val, s))

\* Two ridges between the same two pixels: a repeated entry.
C12_Witness ==
    /\ ConstantReturned
    /\ SymmetricTable
    /\ call.ridge_points = <<<<0, 1>>, <<1, 0>>>>
    /\ call.coefficient = 2
    /\ Cardinality(TablePixels) = 3
    /\ result.val[0][1] = RegValue(0, -8)
    /\ QuadraticForm(result.val, [i \in TablePixels |-> IF i = 0 THEN 1 ELSE -1]) = RegValue(3, 32)

WeightedReturned ==
    call.fn = "weighted_regularization_matrix_from" /\ result.kind = "value"

\* (inner_coefficient * signal_j + outer_coefficient * (1 - signal_j))^2
AdaptiveWeight(j) ==
    Square(call.inner_coefficient * call.pixel_signals[j]
           + call.outer_coefficient * (1 - call.pixel_signals[j]))

\* What the visits of all neighbors add to entry (a, b) when the visit of
\* neighbor j adds amount[j] to the two diagonal entries and subtracts it
\* from the two off-diagonal ones.
VisitsAdd(amount, a, b) ==
    SumOver([i \in TablePixels |->
        SumOver([k \in 0..(call.pixel_neighbors_sizes[i] - 1) |->
            LET j == call.pixel_neighbors[i][k]
            IN  amount[j] * ((IF a = i /\ b = i THEN 1 ELSE 0)
                             + (IF a = j /\ b = j THEN 1 ELSE 0)
                             - (IF a = i /\ b = j THEN 1 ELSE 0)
                             - (IF a = j /\ b = i THEN 1 ELSE 0))])])

\* C13 as stated: each visit of neighbor j adds and subtracts the adaptive
\* weight w[j] itself; with the 1e-8 floor nothing else is added.
C13_VisitAddsAdaptiveWeight ==
    (WeightedReturned /\ WellFormedTable) =>
        \A a, b \in TablePixels :
            result.val[a][b] =
                RegValue(IF a = b THEN 1 ELSE 0,
                         VisitsAdd([j \in TablePixels |-> AdaptiveWeight(j)], a, b))

\* C13 amended: each visit of neighbor j from pixel i adds w[j]^2 to H[i,i]
\* and H[j,j] and subtracts w[j]^2 from H[i,j] and H[j,i], w[j] the adaptive
\* weight adaptive_regularization_weights_from returns (the matrix routine
\* squares the weights it is given); with the 1e-8 floor nothing else is added.
C13_VisitAddsSquaredAdaptiveWeight ==
    (WeightedReturned /\ WellFormedTable) =>
        \A a, b \in TablePixels :
            result.val[a][b] =
                RegValue(IF a = b THEN 1 ELSE 0,
                         VisitsAdd([j \in TablePixels |-> Square(AdaptiveWeight(j))], a, b))

\* One ridge between a bright pixel 0 (weight 2^2) and a faint pixel 1
\* (weight 3^2): both visits land on H[0,0].
C13_Witness ==
    /\ WeightedReturned
    /\ call.ridge_points = <<<<0, 1>>>>
    /\ call.inner_coefficient = 2 /\ call.outer_coefficient = 3
    /\ Cardinality(TablePixels) = 2
    /\ call.pixel_signals[0] = 1 /\ call.pixel_signals[1] = 0
    /\ result.val[0][0] = RegValue(1, 16 + 81)
    /\ result.val[0][1] = RegValue(0, -(16 + 81))

RegSplitDone == call.fn = "reg_split_from" /\ result.kind # "none"

\* C14: when the neighbor count of any cross point exceeds the number of
\* slots, reg_split_from raises FitException (and no IndexError or other
\* error from a position outside the slots).
C14_OverflowRaisesFitException ==
    (RegSplitDone
     /\ \E i \in CrossPoints : call.on_entry.splitted_sizes[i] > Slots(call.on_entry)) =>
        result = Raise("FitException")

\* The neighbor relation of the table in the call is not symmetric.
AsymmetricTable == \E i, j \in TablePixels : CountOf(i, j) # CountOf(j, i)

\* C28: weighted_regularization_matrix_from returns a symmetric matrix,
\* H[i,j] = H[j,i] for all i, j, for every neighbor table, also one whose
\* neighbor relation is not symmetric, and every row of H sums to the 1e-8
\* floor.
C28_WeightedSchemeSymmetricRowsSumToFloor ==
    (WeightedReturned /\ WellFormedTable) =>
        \A i \in TablePixels :
            /\ \A j \in TablePixels : result.val[i][j] = result.val[j][i]
            /\ SumOver([j \in TablePixels |-> result.val[i][j].floor]) = 1
            /\ SumOver([j \in TablePixels |-> result.val[i][j].coef]) = 0

\* Pixel 0 lists the faint pixel 1 (weight 3^2) and pixel 1 lists nobody:
\* the one visit still writes both H[0,1] and H[1,0].
C28_Witness ==
    /\ WeightedReturned
    /\ AsymmetricTable
    /\ call.ridge_points = <<<<0, 1>>>>
    /\ call.pixel_neighbors_sizes = (0 :> 1 @@ 1 :> 0)
    /\ call.inner_coefficient = 2 /\ call.outer_coefficient = 3
    /\ call.pixel_signals[1] = 0
    /\ result.val[0][1] = RegValue(0, -81)
    /\ result.val[1][0] = RegValue(0, -81)
    /\ result.val[1][1] = RegValue(1, 81)

\* The pixel of cross point i is among the first size entries of its row.
OwnListed(arrays, i, size) ==
    \E j \in 0..(size - 1) :
        j \in DOMAIN arrays.splitted_mappings[i] /\ arrays.splitted_mappings[i][j] = i \div 4

\* The neighbor count of cross point i once its own pixel is added if absent.
CountWithOwn(arrays, i) ==
    arrays.splitted_sizes[i]
    + (IF OwnListed(arrays, i, arrays.splitted_sizes[i]) THEN 0 ELSE 1)

\* C25: reg_split_from returns normally whenever the neighbor count of every
\* cross point, its own pixel added if absent, does not exceed the number of
\* slots; a row that is exactly full and holds its own pixel is accepted.
C25_WithinSlotsReturns ==
    (RegSplitDone
     /\ \A i \in CrossPoints : CountWithOwn(call.on_entry, i) <= Slots(call.on_entry)) =>
        result.kind = "value"

\* C26: after reg_split_from returns, for every cross point i the own pixel
\* i // 4 is among the first splitted_sizes[i] entries of its row,
\* splitted_sizes[i] has grown by one exactly when the pixel was absent on
\* entry, and the appended entry sits at position (old size) with weight 1.
C26_OwnPixelAppendedAtOldSize ==
    (RegSplitDone /\ result.kind = "value") =>
        \A i \in CrossPoints :
            LET old == call.on_entry.splitted_sizes[i]
                absent == ~OwnListed(call.on_entry, i, old)
            IN  /\ OwnListed(call.arrays, i, call.arrays.splitted_sizes[i])
                /\ call.arrays.splitted_sizes[i] = IF absent THEN old + 1 ELSE old
                /\ absent =>
                       /\ call.arrays.splitted_mappings[i][old] = i \div 4
                       /\ call.arrays.splitted_weights[i][old] = 1

\* C27: when reg_split_from raises FitException the three arrays of the
\* caller hold what they held before the call.
C27_FailedCallLeavesArrays ==
    (RegSplitDone /\ result = Raise("FitException")) => call.arrays = call.on_entry

----------------------------------------------------------------------------
(* Properties of the pixel-splitted scheme (specification SpecSplitted)    *)

SplittedReturned ==
    call.fn = "constant_pixel_splitted_regularization_matrix_from" /\ result.kind = "value"

SplittedPixels == 0..(Cardinality(DOMAIN call.arrays.splitted_mappings) \div 4 - 1)

\* The first splitted_sizes[k] mapping entries of every cross point differ.
DistinctEntries ==
    \A k \in DOMAIN call.arrays.splitted_mappings :
        \A l1, l2 \in 0..(call.arrays.splitted_sizes[k] - 1) :
            l1 # l2 => call.arrays.splitted_mappings[k][l1] # call.arrays.splitted_mappings[k][l2]

\* v_k[a]: the weights of cross point k scattered onto pixel a.
Scattered(k, a) ==
    SumOver([l \in 0..(call.arrays.splitted_sizes[k] - 1) |->
                IF call.arrays.splitted_mappings[k][l] = a
                THEN call.arrays.splitted_weights[k][l] ELSE 0])

\* C22: when the counted mapping entries of each cross point are pairwise
\* distinct, constant_pixel_splitted_regularization_matrix_from returns
\* H = 1e-8 * I + c^2 * sum_k v_k v_k^T (the halved diagonal cancels the
\* double counting of the pairs (l, l)), and H is symmetric.
C22_SplittedMatrixIsSumOfOuterProducts ==
    (SplittedReturned /\ DistinctEntries) =>
        \A a, b \in SplittedPixels :
            /\ result.val[a][b] =
                   RegValue(FInt(IF a = b THEN 1 ELSE 0),
                            FInt(Square(call.coefficient)
                                 * SumOver([k \in DOMAIN call.arrays.splitted_mappings |->
                                               Scattered(k, a) * Scattered(k, b)])))
            /\ result.val[a][b] = result.val[b][a]

\* A cross point of pixel 0 mapped to pixels 1 and 0 with weights 1 and 2,
\* coefficient 2.
C22_Witness ==
    /\ SplittedReturned
    /\ DistinctEntries
    /\ call.coefficient = 2
    /\ call.arrays.splitted_sizes[0] = 2
    /\ call.arrays.splitted_mappings[0][0] = 1
    /\ call.arrays.splitted_mappings[0][1] = 0
    /\ call.arrays.splitted_sizes[1] = 0
    /\ result.val[0][1] = RegValue(FInt(0), FInt(8))
    /\ result.val[0][0] = RegValue(FInt(1), FInt(4 * (4 + 2)))

----------------------------------------------------------------------------
(* Properties of the mappers (specification SpecMapper)                    *)

MapperCalled == call.fn = "mapping_matrix"

\* The weights of the first sizes[s] entries of the row of sub-pixel s.
RowWeights(s) ==
    [k1 \in 1..pix_indexes_for_sub_slim_index(call.mapper, call.sub_size,
                                              call.geometry).sizes[s] |->
        call.pix_weights_for_sub_slim_index.val[s][k1 - 1]]

\* C15: partition of unity: for every data sub-pixel the weights of the
\* first sizes[s] entries of its row sum to 1, and every row of the mapping
\* matrix (the average over the sub-pixels of an image pixel) sums to 1.
C15_PartitionOfUnity ==
    /\ (MapperCalled /\ call.pix_weights_for_sub_slim_index.set) =>
           \A s \in SubPixels(call.sub_size) : FSum(RowWeights(s)) = FInt(1)
    /\ (MapperCalled /\ result.kind = "value") =>
           \A i \in DataPixels :
               FSum([p1 \in 1..Cardinality(SourcePixels) |-> result.val[i][p1 - 1]]) = FInt(1)

\* A Delaunay mapper with sub_size 2 whose first sub-pixel has the
\* barycentric weights 1/2, 1/2, 0: the first row of the mapping matrix
\* is 3/8, 3/8, 1/4.
C15_Witness ==
    /\ MapperCalled
    /\ result.kind = "value"
    /\ call.mapper = "delaunay"
    /\ call.sub_size = 2
    /\ call.geometry[0] = [k \in 0..2 |-> IF k = 2 THEN 0 ELSE 2]
    /\ call.geometry[1] = [k \in 0..2 |-> 1]
    /\ call.pix_weights_for_sub_slim_index.val[0] =
           [k \in 0..2 |-> IF k = 2 THEN FInt(0) ELSE Frac(1, 2)]
    /\ result.val[0] = [p \in SourcePixels |-> IF p = 2 THEN Frac(1, 4) ELSE Frac(3, 8)]

InverseReturned == call.fn = "sub_slim_indexes_for_pix_index" /\ result.kind = "value"

\* C24: sub_slim_indexes_for_pix_index inverts the mapping table: sub-pixel
\* s is in the list of pixel p as many times as p is among the first
\* sizes[s] entries of mappings[s], the padding past sizes[s] adds nothing,
\* and each list is in ascending sub-pixel order.
C24_InverseOfMappingTable ==
    InverseReturned =>
        LET mappings == call.pix_indexes_for_sub_slim_index.mappings
            sizes == call.pix_indexes_for_sub_slim_index.sizes
        IN  /\ DOMAIN result.val = 0..(call.pixels - 1)
            /\ \A p \in 0..(call.pixels - 1) :
                   /\ \A s \in DOMAIN mappings :
                          Cardinality(PositionsOf(result.val[p], s))
                              = Cardinality({k \in 0..(sizes[s] - 1) : mappings[s][k] = p})
                   /\ \A q \in 1..Len(result.val[p]) : result.val[p][q] \in DOMAIN mappings
                   /\ \A q \in 1..(Len(result.val[p]) - 1) :
                          result.val[p][q] <= result.val[p][q + 1]
            /\ SumOver([p \in 0..(call.pixels - 1) |-> Len(result.val[p])])
                   = SumOver(sizes)

\* Three sub-pixels: the first maps to pixels 2 and 0, the second to pixel 0
\* with one padding entry, the third is all padding.
C24_Witness ==
    /\ InverseReturned
    /\ call.pix_indexes_for_sub_slim_index.sizes = [s \in 0..2 |-> 2 - s]
    /\ call.pix_indexes_for_sub_slim_index.mappings[0] = [k \in 0..1 |-> IF k = 0 THEN 2 ELSE 0]
    /\ call.pix_indexes_for_sub_slim_index.mappings[1] = [k \in 0..1 |-> IF k = 0 THEN 0 ELSE -1]
    /\ result.val = [p \in 0..2 |-> IF p = 0 THEN <<0, 1>> ELSE IF p = 2 THEN <<0>> ELSE <<>>]

----------------------------------------------------------------------------
(* Properties of the preloads (specification SpecSetPreloads)              *)

SetReturned == call.fn \in SetMethods /\ result.kind = "value"

\* The fields a method sets, and the quantity of an inversion it compares.
FieldsOf(fn) ==
    CASE fn = "set_mapper" -> {"mapper"}
      [] fn = "set_relocated_grid" -> {"relocated_grid"}
      [] fn = "set_inversion" ->
             {"blurred_mapping_matrix", "curvature_matrix_preload", "curvature_matrix_counts"}
      [] fn = "set_regularization_matrix_and_term" ->
             {"regularization_matrix", "log_det_regularization_matrix_term"}

ComparedOf(fn) ==
    CASE fn = "set_mapper" -> "mapping_matrix"
      [] fn = "set_relocated_grid" -> "source_grid_slim"
      [] fn = "set_inversion" -> "blurred_mapping_matrix"
      [] fn = "set_regularization_matrix_and_term" -> "log_det_regularization_matrix_term"

\* What field f holds when it is taken from the inversion of a fit.
TakenFrom(f, inversion) ==
    IF f = "mapper" THEN [mapping_matrix |-> inversion.mapping_matrix]
    ELSE IF f = "relocated_grid" THEN inversion.source_grid_slim
    ELSE inversion[f]

FitsAgree ==
    /\ call.fit_0.inversion.set
    /\ call.fit_1.inversion.set
    /\ call.fit_0.inversion.val[ComparedOf(call.fn)]
           = call.fit_1.inversion.val[ComparedOf(call.fn)]

----------------------------------------------------------------------------
(* Properties of reconstruction_dict and regularization_term               *)
(* (specification SpecInversionTerms)                                      *)

DictReturned == call.fn = "reconstruction_dict" /\ result.kind = "value"

\* The position in the vector where the segment of the k-th object starts.
SegmentStart(k) == ISum(SubSeq(call.pixels_list, 1, k - 1))

\* The positions the k-th segment is read from.
SegmentPositions(k) == (SegmentStart(k) + 1)..(SegmentStart(k) + call.pixels_list[k])

\* C18: reconstruction_dict has one segment per linear object, in the order
\* of linear_obj_list; the k-th starts at the sum of the pixels counts before
\* it and has its own pixels count as length, so the segments are pairwise
\* disjoint and together cover the whole vector.
C18_ReconstructionDictSegments ==
    DictReturned =>
        /\ Len(result.val) = Len(call.pixels_list)
        /\ \A k \in 1..Len(call.pixels_list) :
               /\ Len(result.val[k]) = call.pixels_list[k]
               /\ \A q \in 1..call.pixels_list[k] :
                      result.val[k][q] = call.reconstruction[SegmentStart(k) + q]
        /\ \A k, m \in 1..Len(call.pixels_list) :
               k # m => SegmentPositions(k) \cap SegmentPositions(m) = {}
        /\ UNION {SegmentPositions(k) : k \in 1..Len(call.pixels_list)}
               = 1..Len(call.reconstruction)

\* Objects of 1, 2 and 3 pixels, as in the test; positions told apart by
\* their values.
C18_Witness ==
    /\ DictReturned
    /\ call.pixels_list = <<1, 2, 3>>
    /\ call.reconstruction = <<11, 12, 13, 14, 15, 16>>
    /\ result.val = <<<<11>>, <<12, 13>>, <<14, 15, 16>>>>

TermReturned == call.fn = "regularization_term" /\ result.kind = "value"

Identity3 == <<<<1, 0, 0>>, <<0, 1, 0>>, <<0, 0, 1>>>>
Tridiagonal3 == <<<<2, -1, 0>>, <<-1, 2, -1>>, <<0, -1, 2>>>>

\* C19: regularization_term is the quadratic form s^T H s of the
\* reconstruction s and the regularization matrix H; s = [1,1,1] with the
\* identity gives 3 and s = [2,3,5] with [[2,-1,0],[-1,2,-1],[0,-1,2]] gives 34.
C19_RegularizationTermQuadraticForm ==
    TermReturned =>
        /\ result.val =
               ISum([i \in 1..Len(call.reconstruction) |->
                   ISum([j \in 1..Len(call.reconstruction) |->
                       call.reconstruction[i] * call.regularization_matrix[i][j]
                       * call.reconstruction[j]])])
        /\ (call.reconstruction = <<1, 1, 1>> /\ call.regularization_matrix = Identity3)
               => result.val = 3
        /\ (call.reconstruction = <<2, 3, 5>> /\ call.regularization_matrix = Tridiagonal3)
               => result.val = 34

C19_Witness ==
    /\ TermReturned
    /\ call.reconstruction = <<2, 3, 5>>
    /\ call.regularization_matrix = Tridiagonal3
    /\ result.val = 34

----------------------------------------------------------------------------
(* Properties of the log determinant of the curvature-regularization       *)
(* matrix (specification Spec)                                             *)

LogDetCurvatureReg == "log_det_curvature_reg_matrix_term"

\* The term of an inversion whose curvature_reg_matrix is m.
LogDetVia(m) == two_sum_log_diag(np_linalg_cholesky(m).val)

\* C20: for a positive-definite curvature_reg_matrix,
\* log_det_curvature_reg_matrix_term (the logarithm of the product of the
\* squared diagonal entries of the Cholesky factor) is log(det(curvature_reg_matrix));
\* it is log(1) = 0 for identity(3) and log(4) for [[2,-1,0],[-1,2,-1],[0,-1,2]].
C20_LogDetViaCholeskyIsLogDet ==
    /\ (/\ last.acc = LogDetCurvatureReg
        /\ cache["curvature_reg_matrix"].set
        /\ IsPosDef(cache["curvature_reg_matrix"].val)) =>
           last.out = Value(Log(FInt(Det(cache["curvature_reg_matrix"].val))))
    /\ LogDetVia(Identity3) = Log(FInt(1))
    /\ LogDetVia(Tridiagonal3) = Log(FInt(DetOn(Tridiagonal3, Upto(3), Upto(3))))
    /\ DetOn(Tridiagonal3, Upto(3), Upto(3)) = 4

\* The first access, on the matrix [[2, 1], [1, 2]] of determinant 3.
C20_Witness ==
    /\ last.acc = LogDetCurvatureReg
    /\ ~last.hit
    /\ cache["curvature_reg_matrix"].set
    /\ IsPosDef(cache["curvature_reg_matrix"].val)
    /\ cache["curvature_reg_matrix"].val[1][2] # 0
    /\ last.out = Value(Log(FInt(3)))

----------------------------------------------------------------------------
(* Properties of the triangles (specification SpecTriangles)               *)

\* C30: for every set of non-degenerate triangles and every point,
\* ArrayTriangles.containing(point) returns exactly the triangles for which
\* Triangle(v0, v1, v2).contains(point) is true on the same three vertices
\* and the same point.
C30_ContainingAgreesWithContains ==
    (call.fn = "ArrayTriangles.containing" /\ result.kind = "value") =>
        triangles(result.val) =
            SelectSeq(triangles(call.self), LAMBDA triangle : contains(triangle, call.point))

----------------------------------------------------------------------------
(* Properties of the curvature matrix (specification SpecCurvature) *)

\* C7: for the same dataset and the same mappers (nearest-neighbour or
\* interpolating, two pixelizations of different resolution side by side),
\* the curvature matrix an inversion returns with use_w_tilde equals,
\* entry by entry, the one it returns without.
C7_WTildeEqualsMapping ==
    (call.fn = "curvature_matrix" /\ result.kind = "value") =>
        \A a, b \in Sources :
            result.val[a][b] =
                curvature_matrix_from(call.dataset, call.mapping_matrix,
                                      ~call.use_w_tilde)[a][b]

\* An interpolating mapper, unequal noise and a PSF with wings, by w_tilde,
\* with a non-zero entry between the two pixelizations.
C7_Witness ==
    /\ call.fn = "curvature_matrix" /\ result.kind = "value"
    /\ call.use_w_tilde /\ call.interpolating
    /\ call.dataset.psf = [o \in -1..1 |-> 1]
    /\ call.dataset.weight[1] # call.dataset.weight[2]
    /\ \E k \in Pix : call.mapping_matrix[k][2] = 1
    /\ result.val[1][3] > 0

====
